---------------------------- MODULE Spec2Model ----------------------------
(***************************************************************************)
(* A model of the FloatChat repository: the chat demo (src/app.py), the    *)
(* prototype backend (argo-platform/backend/app/simple_main.py), the       *)
(* services of the full backend (services/data_service.py,                 *)
(* services/alert_service.py) and the sample data generator                *)
(* (data/generate_sample_data.py).                                         *)
(* The full backend's application (backend/app/main.py) and its login      *)
(* (api/auth.py) follow.                                                   *)
(*                                                                         *)
(* The repository holds several programs that share no state.  The         *)
(* variable unit names the one that is running; Init chooses it, and each  *)
(* action belongs to one unit and leaves the variables of the others       *)
(* alone.                                                                  *)
(*                                                                         *)
(* Text (queries, keywords, SQL) is a sequence of one-character strings,   *)
(* so that lower(), upper(), the `in' substring test, rstrip() and the     *)
(* regular expression of parse_query are computed character by character.  *)
(* Real numbers are scaled integers: temperatures in thousandths of a      *)
(* degree before round(x, 2) and hundredths after it.                      *)
(***************************************************************************)
EXTENDS Integers, Sequences, FiniteSets, TLC

VARIABLES
    unit,         \* the program (or service) that is running
    \* ---- chat demo, src/app.py
    patterns,     \* NaturalLanguageParser.patterns
    argo_data,    \* the rows of table argo_data (ARGODataManager.conn)
    messages,     \* st.session_state.messages
    summary,      \* the last call of generate_ai_summary: [df, result]
    \* ---- prototype backend, simple_main.py
    started,      \* the startup event has run
    db,           \* the tables of argo_platform.db
    response,     \* the answer of the last /api/query request
    dashboard,    \* the answer of the last /api/dashboard request
    \* ---- calls of a keyword matcher on its own (parse_query of the chat
    \* demo, process_natural_language_query of the prototype)
    parsed,       \* the last call: [query, sql]
    remembered,   \* one earlier call: [query, sql]
    between,      \* a different query was processed since that call
    \* ---- full backend, services/alert_service.py
    severity_calls, \* the last two calls of _calculate_severity
    measurements, \* rows of argo_measurements joined with argo_profiles
    detected,     \* the result of the last detection call
    \* ---- full backend, services/data_service.py
    table_rows,   \* number of rows the queried table holds
    query_result, \* the result of the last execute_query call
    \* ---- sample data generator, data/generate_sample_data.py
    generated,    \* the result of the last generator call
    \* ---- full backend, main.py
    bound,        \* what the names imported by main.py are bound to
    app_state,    \* app.state: the services set by the startup event
    http,         \* the responses given to the requests, in the order given
    clock,        \* time.time(), in ticks
    inflight,     \* the requests of POST /api/v1/query being handled
    background,   \* the background tasks added and not yet run
    \* ---- full backend, api/auth.py
    users,        \* the committed rows of table users
    login_result, \* the last call of login: its request and its answer
    logins,       \* concurrent calls of get_or_create_user: where each is
    \* ---- full backend, a detection run of services/alert_service.py
    store,        \* the committed rows of ocean_anomalies, user_alerts, users
    session,      \* the objects added to the AsyncSession and not committed
    run,          \* the run: where it is, what it found, what it printed
    emails        \* the e-mails handed to the SMTP server

vars_app == <<patterns, argo_data, messages, summary>>
vars_proto == <<started, db, response, dashboard>>
vars_history == <<parsed, remembered, between>>
vars_alert == <<severity_calls, measurements, detected>>
vars_data == <<table_rows, query_result>>
vars_gen == <<generated>>
vars_main == <<bound, app_state, http, clock, inflight, background>>
vars_auth == <<users, login_result, logins>>
vars_run == <<store, session, run, emails>>
vars_backend == <<vars_main, vars_auth, vars_run>>
vars == <<unit, vars_app, vars_proto, vars_history, vars_alert, vars_data, vars_gen,
          vars_backend>>

\* Python's None
None == [kind |-> "None"]

-----------------------------------------------------------------------------
(* Text.                                                                   *)

LowerLetters == <<"a","b","c","d","e","f","g","h","i","j","k","l","m","n","o","p","q","r","s","t","u","v","w","x","y","z">>
UpperLetters == <<"A","B","C","D","E","F","G","H","I","J","K","L","M","N","O","P","Q","R","S","T","U","V","W","X","Y","Z">>
Digits == <<"0","1","2","3","4","5","6","7","8","9">>
\* what \s of the re module matches, among the characters of the model
Whitespace == {" ", "\t"}

IsDigit(c) == \E i \in 1..Len(Digits) : Digits[i] = c

DigitValue(c) == (CHOOSE i \in 1..Len(Digits) : Digits[i] = c) - 1

\* str.lower(), one character
LowerChar(c) ==
    IF \E i \in 1..Len(UpperLetters) : UpperLetters[i] = c
    THEN LowerLetters[CHOOSE i \in 1..Len(UpperLetters) : UpperLetters[i] = c]
    ELSE c

\* str.upper(), one character
UpperChar(c) ==
    IF \E i \in 1..Len(LowerLetters) : LowerLetters[i] = c
    THEN UpperLetters[CHOOSE i \in 1..Len(LowerLetters) : LowerLetters[i] = c]
    ELSE c

Lower(s) == [i \in 1..Len(s) |-> LowerChar(s[i])]

Upper(s) == [i \in 1..Len(s) |-> UpperChar(s[i])]

\* `needle in hay' of Python: needle occurs as a substring
Contains(hay, needle) ==
    \E i \in 1..(Len(hay) - Len(needle) + 1) :
        \A j \in 1..Len(needle) : hay[i + j - 1] = needle[j]

StartsWith(s, prefix) ==
    Len(s) >= Len(prefix) /\ SubSeq(s, 1, Len(prefix)) = prefix

\* the first index >= i of s whose character is not in class, Len(s)+1 if none
RECURSIVE RunEnd(_, _, _)
RunEnd(s, i, class) ==
    IF i > Len(s) \/ s[i] \notin class THEN i ELSE RunEnd(s, i + 1, class)

DigitSet == {Digits[i] : i \in 1..Len(Digits)}

\* int(text) of a sequence of digits
RECURSIVE ToNat(_)
ToNat(ds) ==
    IF Len(ds) = 0 THEN 0
    ELSE 10 * ToNat(SubSeq(ds, 1, Len(ds) - 1)) + DigitValue(ds[Len(ds)])

\* str(n) of a natural number
RECURSIVE ToText(_)
ToText(n) ==
    IF n < 10 THEN <<Digits[n + 1]>>
    ELSE ToText(n \div 10) \o <<Digits[(n % 10) + 1]>>

Space == <<" ">>

-----------------------------------------------------------------------------
(* Random numbers.  The generators draw from numpy.random and random,      *)
(* whose streams the model does not reproduce: a stream is the affine      *)
(* sequence of a seed <<a, b>>, its k-th draw is (a*k + b) % RandMod, and   *)
(* the seeds range over all pairs, so that every pair of values occurs for *)
(* any two draws of a record.                                              *)

RandMod == 7

Seeds == [a : 0..(RandMod - 1), b : 0..(RandMod - 1)]

\* the stream that follows np.random.seed(42)
Seed42 == [a |-> 1 + (42 % (RandMod - 1)), b |-> 42 % RandMod]

Rand(seed, k) == (seed.a * k + seed.b) % RandMod

\* uniform(lo, hi) in thousandths, for the draw v; both ends can be drawn
\* (the upper one through floating-point rounding)
uniform(lo, hi, v) == lo * 1000 + ((hi - lo) * 1000 * v) \div (RandMod - 1)

\* random.choice(list) and np.random.choice(list)
choice(list, v) == list[(v % Len(list)) + 1]

\* random.randint(lo, hi), both ends included
randint(lo, hi, v) == lo + (v % (hi - lo + 1))

\* Python's round(x, ndigits) from thousandths to hundredths (half to even)
Round2(milli) ==
    LET q == milli \div 10
        r == milli % 10
    IN  IF r < 5 THEN q
        ELSE IF r > 5 THEN q + 1
        ELSE IF q % 2 = 0 THEN q ELSE q + 1

\* round(x, 1), from thousandths to tenths
Round1(milli) ==
    LET q == milli \div 100
        r == milli % 100
    IN  IF r < 50 THEN q
        ELSE IF r > 50 THEN q + 1
        ELSE IF q % 2 = 0 THEN q ELSE q + 1

-----------------------------------------------------------------------------
(* The chat demo, src/app.py.                                              *)

n_records == 30

SampleFloatIds == <<1001, 1002, 1003>>
SampleDepths == <<0, 10, 50, 100, 200, 500, 1000, 2000>>

\* the temperature of one record of create_sample_data, in hundredths
SampleTemperature(depth, v) ==
    IF depth <= 50 THEN Round2(uniform(25, 30, v))
    ELSE IF depth <= 200 THEN Round2(uniform(20, 25, v))
    ELSE Round2(uniform(2, 8, v))

\* ARGODataManager.create_sample_data: the columns are drawn one after the
\* other, n_records values each; lat and lon are in thousandths of a degree,
\* time is the day of March 2023 less one
create_sample_data(seed) ==
    [i \in 1..n_records |->
        LET depth == choice(SampleDepths, Rand(seed, 4 * n_records + i))
        IN  [float_id |-> choice(SampleFloatIds, Rand(seed, i)),
             time |-> randint(0, 30, Rand(seed, n_records + i)),
             lat |-> uniform(-10, 10, Rand(seed, 2 * n_records + i)),
             lon |-> uniform(120, 180, Rand(seed, 3 * n_records + i)),
             depth |-> depth,
             temperature |-> SampleTemperature(depth, Rand(seed, 5 * n_records + i)),
             salinity |-> Round2(uniform(34, 37, Rand(seed, 6 * n_records + i)))]]

\* the SQL texts of NaturalLanguageParser
SqlNearEquator == <<"S","E","L","E","C","T"," ","*"," ","F","R","O","M"," ","a","r","g","o","_","d","a","t","a"," ","W","H","E","R","E"," ","l","a","t"," ","B","E","T","W","E","E","N"," ","-","5"," ","A","N","D"," ","5"," ","A","N","D"," ","t","i","m","e"," ","L","I","K","E"," ","'","%","2","0","2","3","-","0","3","%","'">>
SqlByDepth == <<"S","E","L","E","C","T"," ","d","e","p","t","h",","," ","A","V","G","(","t","e","m","p","e","r","a","t","u","r","e",")"," ","a","s"," ","a","v","g","_","t","e","m","p","e","r","a","t","u","r","e"," ","F","R","O","M"," ","a","r","g","o","_","d","a","t","a"," ","G","R","O","U","P"," ","B","Y"," ","d","e","p","t","h"," ","O","R","D","E","R"," ","B","Y"," ","d","e","p","t","h">>
SqlMarch == <<"S","E","L","E","C","T"," ","*"," ","F","R","O","M"," ","a","r","g","o","_","d","a","t","a"," ","W","H","E","R","E"," ","t","i","m","e"," ","L","I","K","E"," ","'","%","2","0","2","3","-","0","3","%","'">>
SqlSurface == <<"S","E","L","E","C","T"," ","*"," ","F","R","O","M"," ","a","r","g","o","_","d","a","t","a"," ","W","H","E","R","E"," ","d","e","p","t","h"," ","<","="," ","5","0">>
SqlDeep == <<"S","E","L","E","C","T"," ","*"," ","F","R","O","M"," ","a","r","g","o","_","d","a","t","a"," ","W","H","E","R","E"," ","d","e","p","t","h"," ",">","="," ","5","0","0">>
SqlFloatTemplate == <<"S","E","L","E","C","T"," ","*"," ","F","R","O","M"," ","a","r","g","o","_","d","a","t","a"," ","W","H","E","R","E"," ","f","l","o","a","t","_","i","d"," ","="," ","{","f","l","o","a","t","_","i","d","}">>
SqlAll == <<"S","E","L","E","C","T"," ","*"," ","F","R","O","M"," ","a","r","g","o","_","d","a","t","a">>
SqlDefault == <<"S","E","L","E","C","T"," ","*"," ","F","R","O","M"," ","a","r","g","o","_","d","a","t","a"," ","L","I","M","I","T"," ","1","0">>
SqlFloatPrefix == <<"S","E","L","E","C","T"," ","*"," ","F","R","O","M"," ","a","r","g","o","_","d","a","t","a"," ","W","H","E","R","E"," ","f","l","o","a","t","_","i","d"," ","="," ">>

\* NaturalLanguageParser.__init__: self.patterns, in declaration order
InitialPatterns == <<
    [name |-> "salinity_near_equator",
     keywords |-> << <<"s","a","l","i","n","i","t","y">>, <<"e","q","u","a","t","o","r">>, <<"n","e","a","r"," ","e","q","u","a","t","o","r">> >>,
     sql_template |-> SqlNearEquator],
    [name |-> "temperature_by_depth",
     keywords |-> << <<"t","e","m","p","e","r","a","t","u","r","e">>, <<"d","e","p","t","h">> >>,
     sql_template |-> SqlByDepth],
    [name |-> "all_march_data",
     keywords |-> << <<"m","a","r","c","h">>, <<"2","0","2","3">>, <<"m","a","r","c","h"," ","2","0","2","3">> >>,
     sql_template |-> SqlMarch],
    [name |-> "surface_data",
     keywords |-> << <<"s","u","r","f","a","c","e">>, <<"s","u","r","f","a","c","e"," ","w","a","t","e","r">> >>,
     sql_template |-> SqlSurface],
    [name |-> "deep_water",
     keywords |-> << <<"d","e","e","p">>, <<"d","e","e","p"," ","w","a","t","e","r">> >>,
     sql_template |-> SqlDeep],
    [name |-> "float_specific",
     keywords |-> << <<"f","l","o","a","t">> >>,
     sql_template |-> SqlFloatTemplate],
    [name |-> "all_data",
     keywords |-> << <<"a","l","l">>, <<"e","v","e","r","y","t","h","i","n","g">>, <<"s","h","o","w"," ","a","l","l">> >>,
     sql_template |-> SqlAll] >>

\* re.search(r'float\s+(\d+)', text): whether the pattern matches at index i
FloatMatchAt(text, i) ==
    /\ i + 4 <= Len(text)
    /\ SubSeq(text, i, i + 4) = <<"f","l","o","a","t">>
    /\ LET j == RunEnd(text, i + 5, Whitespace)
       IN  j > i + 5 /\ j <= Len(text) /\ IsDigit(text[j])

\* group(1) of the leftmost match: the longest run of digits after the
\* whitespace; None when there is no match
FloatMatch(text) ==
    IF \E i \in 1..Len(text) : FloatMatchAt(text, i)
    THEN LET i == CHOOSE k \in 1..Len(text) :
                      /\ FloatMatchAt(text, k)
                      /\ \A m \in 1..(k - 1) : ~FloatMatchAt(text, m)
             j == RunEnd(text, i + 5, Whitespace)
         IN  [matched |-> TRUE, group1 |-> SubSeq(text, j, RunEnd(text, j, DigitSet) - 1)]
    ELSE [matched |-> FALSE, group1 |-> << >>]

\* the loop run to its end, a later pattern replacing an earlier one
RECURSIVE CheckPatternsLastWins(_, _, _)
CheckPatternsLastWins(pats, k, text) ==
    IF k > Len(pats) THEN SqlDefault
    ELSE LET later == CheckPatternsLastWins(pats, k + 1, text)
         IN  IF later # SqlDefault THEN later
             ELSE IF \E n \in 1..Len(pats[k].keywords) : Contains(text, pats[k].keywords[n])
                  THEN pats[k].sql_template
                  ELSE SqlDefault

\* the loop `for pattern in self.patterns: for keyword in keywords' from
\* pattern k on: the template of the first pattern one of whose keywords is
\* in the text, the default SQL when the loop ends
RECURSIVE CheckPatterns(_, _, _)
CheckPatterns(pats, k, text) ==
    IF k > Len(pats) THEN SqlDefault
    ELSE IF \E n \in 1..Len(pats[k].keywords) : Contains(text, pats[k].keywords[n])
         THEN pats[k].sql_template
         ELSE CheckPatterns(pats, k + 1, text)

\* a parse_query that tries the keyword patterns before the float number
ParseQueryPatternsFirst(pats, user_query) ==
    LET user_query_lower == Lower(user_query)
        float_match == FloatMatch(user_query_lower)
        by_keyword == CheckPatterns(pats, 1, user_query_lower)
    IN  IF by_keyword # SqlDefault /\ by_keyword # SqlFloatTemplate
        THEN by_keyword
        ELSE IF float_match.matched
             THEN SqlFloatPrefix \o float_match.group1
             ELSE by_keyword

\* NaturalLanguageParser.parse_query, on the parser's patterns pats
parse_query(pats, user_query) ==
    LET user_query_lower == Lower(user_query)
        float_match == FloatMatch(user_query_lower)
    IN  IF float_match.matched
        THEN SqlFloatPrefix \o float_match.group1
        ELSE CheckPatterns(pats, 1, user_query_lower)

\* a parser that drops the pattern it tried first
PatternsAfterParseDropsFirst(pats, user_query) ==
    IF Len(pats) > 1 THEN Tail(pats) ELSE pats

\* what a call of parse_query leaves in self.patterns: the method assigns
\* nothing
PatternsAfterParse(pats, user_query) == pats

AllColumns == <<"float_id", "lat", "lon", "time", "depth", "temperature", "salinity">>

Frame(columns, rows) == [kind |-> "DataFrame", columns |-> columns, rows |-> rows]

\* the rows of a sequence that satisfy Keep, in order
SelectRows(rows, Keep(_)) ==
    LET kept[i \in 0..Len(rows)] ==
            IF i = 0 THEN << >>
            ELSE IF Keep(rows[i]) THEN Append(kept[i - 1], rows[i])
                 ELSE kept[i - 1]
    IN  kept[Len(rows)]

\* the elements of a finite set of integers in increasing order
RECURSIVE SortedSeq(_)
SortedSeq(S) ==
    IF S = {} THEN << >>
    ELSE LET m == CHOOSE x \in S : \A y \in S : x <= y
         IN  <<m>> \o SortedSeq(S \ {m})

RECURSIVE SumTemperature(_)
SumTemperature(rows) ==
    IF Len(rows) = 0 THEN 0 ELSE rows[1].temperature + SumTemperature(Tail(rows))

\* GROUP BY depth ORDER BY depth with AVG(temperature) (the average is cut
\* to a whole number of hundredths)
GroupByDepth(rows) ==
    LET depths == SortedSeq({rows[i].depth : i \in 1..Len(rows)})
    IN  [k \in 1..Len(depths) |->
            LET group == SelectRows(rows, LAMBDA r : r.depth = depths[k])
            IN  [depth |-> depths[k],
                 avg_temperature |-> SumTemperature(group) \div Len(group)]]

IsMarch2023(r) == r.time \in 0..30

\* what SQLite answers to the SQL texts the parser produces: the frame, or
\* the error of a text it cannot parse (the `{' of the unfilled template)
RunSql(sql, rows) ==
    IF sql = SqlNearEquator
    THEN [ok |-> TRUE, df |-> Frame(AllColumns, SelectRows(rows,
              LAMBDA r : r.lat >= -5000 /\ r.lat <= 5000 /\ IsMarch2023(r)))]
    ELSE IF sql = SqlByDepth
    THEN [ok |-> TRUE, df |-> Frame(<<"depth", "avg_temperature">>, GroupByDepth(rows))]
    ELSE IF sql = SqlMarch
    THEN [ok |-> TRUE, df |-> Frame(AllColumns, SelectRows(rows, IsMarch2023))]
    ELSE IF sql = SqlSurface
    THEN [ok |-> TRUE, df |-> Frame(AllColumns, SelectRows(rows, LAMBDA r : r.depth <= 50))]
    ELSE IF sql = SqlDeep
    THEN [ok |-> TRUE, df |-> Frame(AllColumns, SelectRows(rows, LAMBDA r : r.depth >= 500))]
    ELSE IF sql = SqlAll
    THEN [ok |-> TRUE, df |-> Frame(AllColumns, rows)]
    ELSE IF sql = SqlDefault
    THEN [ok |-> TRUE, df |-> Frame(AllColumns,
              SubSeq(rows, 1, IF Len(rows) < 10 THEN Len(rows) ELSE 10))]
    ELSE IF StartsWith(sql, SqlFloatPrefix)
            /\ Len(sql) > Len(SqlFloatPrefix)
            /\ \A i \in (Len(SqlFloatPrefix) + 1)..Len(sql) : IsDigit(sql[i])
    THEN [ok |-> TRUE, df |-> Frame(AllColumns, SelectRows(rows,
              LAMBDA r : r.float_id = ToNat(SubSeq(sql, Len(SqlFloatPrefix) + 1, Len(sql)))))]
    ELSE [ok |-> FALSE, df |-> None]

\* str(e) of the error SQLite raises
SqlError == [kind |-> "str", value |-> "unrecognized token"]

\* ARGODataManager.execute_query: (df, None), or (None, str(e)) when
\* read_sql_query raises
execute_query(sql_query, rows) ==
    LET res == RunSql(sql_query, rows)
    IN  IF res.ok THEN [df |-> res.df, error |-> None]
        ELSE [df |-> None, error |-> SqlError]

\* df.empty
IsEmptyFrame(df) == Len(df.rows) = 0 \/ Len(df.columns) = 0

HasColumn(df, c) == \E i \in 1..Len(df.columns) : df.columns[i] = c

Text(fmt, args) == [fmt |-> fmt, args |-> args]

\* generate_ai_summary: the parts of the summary are the number of rows and
\* the names of the statistics added for the columns the frame has
generate_ai_summary(df) ==
    IF df.kind = "None" \/ IsEmptyFrame(df)
    THEN Text("No data found for your query.", << >>)
    ELSE Text("summary",
              <<Len(df.rows)>>
              \o (IF HasColumn(df, "temperature") THEN <<"Average temperature">> ELSE << >>)
              \o (IF HasColumn(df, "salinity") THEN <<"Average salinity">> ELSE << >>)
              \o (IF HasColumn(df, "depth") THEN <<"Depth range">> ELSE << >>)
              \o (IF HasColumn(df, "time") THEN <<"Time period">> ELSE << >>))

\* a main() that stores the frame with every answer that is not an error
AssistantMessageKeepsData(df, error) ==
    IF error # None /\ error.value # ""
    THEN [role |-> "assistant",
          content |-> Text("Sorry, there was an error processing your query: {error}",
                           <<error>>)]
    ELSE [role |-> "assistant",
          content |-> Text("Found {len(df)} records. {summary}",
                           <<Len(df.rows), generate_ai_summary(df)>>),
          data |-> df]

\* the message main() appends for the outcome of a query (lines 455-509)
AssistantMessage(df, error) ==
    IF error # None /\ error.value # ""
    THEN [role |-> "assistant",
          content |-> Text("Sorry, there was an error processing your query: {error}",
                           <<error>>)]
    ELSE IF df.kind = "None" \/ IsEmptyFrame(df)
    THEN [role |-> "assistant",
          content |-> Text("No data found matching your criteria.", << >>)]
    ELSE [role |-> "assistant",
          content |-> Text("Found {len(df)} records. {summary}",
                           <<Len(df.rows), generate_ai_summary(df)>>),
          data |-> df]

-----------------------------------------------------------------------------
(* The prototype backend, argo-platform/backend/app/simple_main.py.        *)

\* any(word in query_lower for word in words)
AnyIn(text, words) == \E n \in 1..Len(words) : Contains(text, words[n])

TemperatureWords == << <<"t","e","m","p","e","r","a","t","u","r","e">>, <<"t","e","m","p">>, <<"t","h","e","r","m","a","l">>, <<"w","a","r","m">>, <<"c","o","l","d">>, <<"h","e","a","t">> >>
SalinityWords == << <<"s","a","l","i","n","i","t","y">>, <<"s","a","l","t">>, <<"s","a","l","i","n","e">> >>
PressureWords == << <<"p","r","e","s","s","u","r","e">>, <<"d","e","p","t","h">>, <<"d","e","e","p">>, <<"s","h","a","l","l","o","w">> >>
LocationWords == << <<"p","a","c","i","f","i","c">>, <<"a","t","l","a","n","t","i","c">>, <<"i","n","d","i","a","n">>, <<"o","c","e","a","n">>, <<"l","o","c","a","t","i","o","n">>, <<"w","h","e","r","e">> >>
AnomalyWords == << <<"a","n","o","m","a","l">>, <<"u","n","u","s","u","a","l">>, <<"s","t","r","a","n","g","e">>, <<"a","l","e","r","t">>, <<"p","r","o","b","l","e","m">>, <<"i","s","s","u","e">> >>
FloatWords == << <<"f","l","o","a","t">>, <<"b","u","o","y">>, <<"s","e","n","s","o","r">>, <<"d","e","v","i","c","e">>, <<"p","l","a","t","f","o","r","m">> >>
DataWords == << <<"d","a","t","a">>, <<"m","e","a","s","u","r","e","m","e","n","t">>, <<"p","r","o","f","i","l","e">>, <<"s","a","m","p","l","e">>, <<"r","e","c","o","r","d">> >>
ScientistWords == << <<"s","c","i","e","n","t","i","s","t">>, <<"r","e","s","e","a","r","c","h","e","r">>, <<"p","i">>, <<"p","r","i","n","c","i","p","a","l">>, <<"i","n","v","e","s","t","i","g","a","t","o","r">> >>
TimeWords == << <<"t","o","d","a","y">>, <<"y","e","s","t","e","r","d","a","y">>, <<"w","e","e","k">>, <<"m","o","n","t","h">>, <<"y","e","a","r">>, <<"r","e","c","e","n","t">> >>

SqlTempHigh == <<"S","E","L","E","C","T"," ","*"," ","F","R","O","M"," ","a","r","g","o","_","p","r","o","f","i","l","e","s"," ","W","H","E","R","E"," ","o","c","e","a","n","_","t","e","m","p","e","r","a","t","u","r","e"," ","I","S"," ","N","O","T"," ","N","U","L","L"," ","O","R","D","E","R"," ","B","Y"," ","o","c","e","a","n","_","t","e","m","p","e","r","a","t","u","r","e"," ","D","E","S","C"," ","L","I","M","I","T"," ","1","0">>
SqlTempLow == <<"S","E","L","E","C","T"," ","*"," ","F","R","O","M"," ","a","r","g","o","_","p","r","o","f","i","l","e","s"," ","W","H","E","R","E"," ","o","c","e","a","n","_","t","e","m","p","e","r","a","t","u","r","e"," ","I","S"," ","N","O","T"," ","N","U","L","L"," ","O","R","D","E","R"," ","B","Y"," ","o","c","e","a","n","_","t","e","m","p","e","r","a","t","u","r","e"," ","A","S","C"," ","L","I","M","I","T"," ","1","0">>
SqlTempRecent == <<"S","E","L","E","C","T"," ","f","l","o","a","t","_","i","d",","," ","o","c","e","a","n","_","t","e","m","p","e","r","a","t","u","r","e",","," ","l","a","t","i","t","u","d","e",","," ","l","o","n","g","i","t","u","d","e",","," ","d","a","t","e","_","t","i","m","e"," ","F","R","O","M"," ","a","r","g","o","_","p","r","o","f","i","l","e","s"," ","W","H","E","R","E"," ","o","c","e","a","n","_","t","e","m","p","e","r","a","t","u","r","e"," ","I","S"," ","N","O","T"," ","N","U","L","L"," ","O","R","D","E","R"," ","B","Y"," ","d","a","t","e","_","t","i","m","e"," ","D","E","S","C"," ","L","I","M","I","T"," ","1","5">>
SqlSalHigh == <<"S","E","L","E","C","T"," ","*"," ","F","R","O","M"," ","a","r","g","o","_","p","r","o","f","i","l","e","s"," ","W","H","E","R","E"," ","s","a","l","i","n","i","t","y"," ","I","S"," ","N","O","T"," ","N","U","L","L"," ","O","R","D","E","R"," ","B","Y"," ","s","a","l","i","n","i","t","y"," ","D","E","S","C"," ","L","I","M","I","T"," ","1","0">>
SqlSalLow == <<"S","E","L","E","C","T"," ","*"," ","F","R","O","M"," ","a","r","g","o","_","p","r","o","f","i","l","e","s"," ","W","H","E","R","E"," ","s","a","l","i","n","i","t","y"," ","I","S"," ","N","O","T"," ","N","U","L","L"," ","O","R","D","E","R"," ","B","Y"," ","s","a","l","i","n","i","t","y"," ","A","S","C"," ","L","I","M","I","T"," ","1","0">>
SqlSalRecent == <<"S","E","L","E","C","T"," ","f","l","o","a","t","_","i","d",","," ","s","a","l","i","n","i","t","y",","," ","l","a","t","i","t","u","d","e",","," ","l","o","n","g","i","t","u","d","e",","," ","d","a","t","e","_","t","i","m","e"," ","F","R","O","M"," ","a","r","g","o","_","p","r","o","f","i","l","e","s"," ","W","H","E","R","E"," ","s","a","l","i","n","i","t","y"," ","I","S"," ","N","O","T"," ","N","U","L","L"," ","O","R","D","E","R"," ","B","Y"," ","d","a","t","e","_","t","i","m","e"," ","D","E","S","C"," ","L","I","M","I","T"," ","1","5">>
SqlPressureDeep == <<"S","E","L","E","C","T"," ","*"," ","F","R","O","M"," ","a","r","g","o","_","p","r","o","f","i","l","e","s"," ","W","H","E","R","E"," ","p","r","e","s","s","u","r","e"," ","I","S"," ","N","O","T"," ","N","U","L","L"," ","O","R","D","E","R"," ","B","Y"," ","p","r","e","s","s","u","r","e"," ","D","E","S","C"," ","L","I","M","I","T"," ","1","0">>
SqlPressure == <<"S","E","L","E","C","T"," ","f","l","o","a","t","_","i","d",","," ","p","r","e","s","s","u","r","e",","," ","o","c","e","a","n","_","t","e","m","p","e","r","a","t","u","r","e",","," ","s","a","l","i","n","i","t","y",","," ","d","a","t","e","_","t","i","m","e"," ","F","R","O","M"," ","a","r","g","o","_","p","r","o","f","i","l","e","s"," ","W","H","E","R","E"," ","p","r","e","s","s","u","r","e"," ","I","S"," ","N","O","T"," ","N","U","L","L"," ","O","R","D","E","R"," ","B","Y"," ","p","r","e","s","s","u","r","e"," ","D","E","S","C"," ","L","I","M","I","T"," ","1","5">>
SqlLocation == <<"S","E","L","E","C","T"," ","f","l","o","a","t","_","i","d",","," ","l","a","t","i","t","u","d","e",","," ","l","o","n","g","i","t","u","d","e",","," ","p","r","o","j","e","c","t","_","n","a","m","e",","," ","s","t","a","t","u","s"," ","F","R","O","M"," ","a","r","g","o","_","f","l","o","a","t","s"," ","O","R","D","E","R"," ","B","Y"," ","d","e","p","l","o","y","m","e","n","t","_","d","a","t","e"," ","D","E","S","C"," ","L","I","M","I","T"," ","1","5">>
SqlAnomalyTemp == <<"S","E","L","E","C","T"," ","*"," ","F","R","O","M"," ","o","c","e","a","n","_","a","n","o","m","a","l","i","e","s"," ","W","H","E","R","E"," ","a","n","o","m","a","l","y","_","t","y","p","e"," ","L","I","K","E"," ","'","%","t","e","m","p","e","r","a","t","u","r","e","%","'"," ","O","R","D","E","R"," ","B","Y"," ","d","e","t","e","c","t","e","d","_","a","t"," ","D","E","S","C"," ","L","I","M","I","T"," ","1","0">>
SqlAnomalySal == <<"S","E","L","E","C","T"," ","*"," ","F","R","O","M"," ","o","c","e","a","n","_","a","n","o","m","a","l","i","e","s"," ","W","H","E","R","E"," ","a","n","o","m","a","l","y","_","t","y","p","e"," ","L","I","K","E"," ","'","%","s","a","l","i","n","i","t","y","%","'"," ","O","R","D","E","R"," ","B","Y"," ","d","e","t","e","c","t","e","d","_","a","t"," ","D","E","S","C"," ","L","I","M","I","T"," ","1","0">>
SqlAnomaly == <<"S","E","L","E","C","T"," ","*"," ","F","R","O","M"," ","o","c","e","a","n","_","a","n","o","m","a","l","i","e","s"," ","O","R","D","E","R"," ","B","Y"," ","c","o","n","f","i","d","e","n","c","e"," ","D","E","S","C",","," ","d","e","t","e","c","t","e","d","_","a","t"," ","D","E","S","C"," ","L","I","M","I","T"," ","1","0">>
SqlFloatActive == <<"S","E","L","E","C","T"," ","*"," ","F","R","O","M"," ","a","r","g","o","_","f","l","o","a","t","s"," ","W","H","E","R","E"," ","s","t","a","t","u","s"," ","="," ","'","a","c","t","i","v","e","'"," ","O","R","D","E","R"," ","B","Y"," ","d","e","p","l","o","y","m","e","n","t","_","d","a","t","e"," ","D","E","S","C">>
SqlFloatProject == <<"S","E","L","E","C","T"," ","p","r","o","j","e","c","t","_","n","a","m","e",","," ","C","O","U","N","T","(","*",")"," ","a","s"," ","f","l","o","a","t","_","c","o","u","n","t",","," ","d","a","t","a","_","c","e","n","t","e","r"," ","F","R","O","M"," ","a","r","g","o","_","f","l","o","a","t","s"," ","G","R","O","U","P"," ","B","Y"," ","p","r","o","j","e","c","t","_","n","a","m","e",","," ","d","a","t","a","_","c","e","n","t","e","r"," ","O","R","D","E","R"," ","B","Y"," ","f","l","o","a","t","_","c","o","u","n","t"," ","D","E","S","C">>
SqlFloat == <<"S","E","L","E","C","T"," ","*"," ","F","R","O","M"," ","a","r","g","o","_","f","l","o","a","t","s"," ","O","R","D","E","R"," ","B","Y"," ","d","e","p","l","o","y","m","e","n","t","_","d","a","t","e"," ","D","E","S","C"," ","L","I","M","I","T"," ","1","0">>
SqlDataRecent == <<"S","E","L","E","C","T"," ","*"," ","F","R","O","M"," ","a","r","g","o","_","p","r","o","f","i","l","e","s"," ","O","R","D","E","R"," ","B","Y"," ","d","a","t","e","_","t","i","m","e"," ","D","E","S","C"," ","L","I","M","I","T"," ","1","5">>
SqlDataSummary == <<"S","E","L","E","C","T"," ","C","O","U","N","T","(","*",")"," ","a","s"," ","t","o","t","a","l","_","p","r","o","f","i","l","e","s",","," ","A","V","G","(","o","c","e","a","n","_","t","e","m","p","e","r","a","t","u","r","e",")"," ","a","s"," ","a","v","g","_","t","e","m","p",","," ","A","V","G","(","s","a","l","i","n","i","t","y",")"," ","a","s"," ","a","v","g","_","s","a","l","i","n","i","t","y"," ","F","R","O","M"," ","a","r","g","o","_","p","r","o","f","i","l","e","s">>
SqlScientist == <<"S","E","L","E","C","T"," ","p","i","_","n","a","m","e",","," ","p","r","o","j","e","c","t","_","n","a","m","e",","," ","C","O","U","N","T","(","*",")"," ","a","s"," ","f","l","o","a","t","_","c","o","u","n","t"," ","F","R","O","M"," ","a","r","g","o","_","f","l","o","a","t","s"," ","G","R","O","U","P"," ","B","Y"," ","p","i","_","n","a","m","e",","," ","p","r","o","j","e","c","t","_","n","a","m","e"," ","O","R","D","E","R"," ","B","Y"," ","f","l","o","a","t","_","c","o","u","n","t"," ","D","E","S","C">>
SqlTime == <<"S","E","L","E","C","T"," ","*"," ","F","R","O","M"," ","a","r","g","o","_","p","r","o","f","i","l","e","s"," ","O","R","D","E","R"," ","B","Y"," ","d","a","t","e","_","t","i","m","e"," ","D","E","S","C"," ","L","I","M","I","T"," ","2","0">>
SqlFallback == <<"S","E","L","E","C","T"," ","*"," ","F","R","O","M"," ","a","r","g","o","_","f","l","o","a","t","s"," ","L","I","M","I","T"," ","8">>

Answer(sql, explanation) == [sql |-> sql, explanation |-> explanation]

\* a chain that tests the salinity words before the temperature words
ProcessSalinityFirst(query) ==
    LET query_lower == Lower(query)
    IN  IF AnyIn(query_lower, SalinityWords)
        THEN Answer(SqlSalRecent, Text("Retrieving recent salinity measurements from ARGO profiles", << >>))
        ELSE IF AnyIn(query_lower, TemperatureWords)
        THEN Answer(SqlTempRecent, Text("Retrieving recent ocean temperature data from ARGO profiles", << >>))
        ELSE Answer(SqlFallback, Text("Showing sample ARGO float data", << >>))

\* process_natural_language_query: the if/elif chain over the lower-cased
\* query; the result is the tuple (sql, explanation)
process_natural_language_query(query) ==
    LET query_lower == Lower(query)
        Has(word) == Contains(query_lower, word)
    IN  IF AnyIn(query_lower, TemperatureWords)
        THEN IF Has(<<"h","i","g","h">>) \/ Has(<<"w","a","r","m">>) \/ Has(<<"h","o","t">>)
             THEN Answer(SqlTempHigh, Text("Finding the highest/warmest ocean temperature measurements", << >>))
             ELSE IF Has(<<"l","o","w">>) \/ Has(<<"c","o","l","d">>) \/ Has(<<"c","o","o","l">>)
             THEN Answer(SqlTempLow, Text("Finding the lowest/coldest ocean temperature measurements", << >>))
             ELSE Answer(SqlTempRecent, Text("Retrieving recent ocean temperature data from ARGO profiles", << >>))
        ELSE IF AnyIn(query_lower, SalinityWords)
        THEN IF Has(<<"h","i","g","h">>)
             THEN Answer(SqlSalHigh, Text("Finding areas with highest salinity levels", << >>))
             ELSE IF Has(<<"l","o","w">>)
             THEN Answer(SqlSalLow, Text("Finding areas with lowest salinity levels", << >>))
             ELSE Answer(SqlSalRecent, Text("Retrieving recent salinity measurements from ARGO profiles", << >>))
        ELSE IF AnyIn(query_lower, PressureWords)
        THEN IF Has(<<"d","e","e","p">>) \/ Has(<<"h","i","g","h">>)
             THEN Answer(SqlPressureDeep, Text("Finding measurements from deepest locations (highest pressure)", << >>))
             ELSE Answer(SqlPressure, Text("Retrieving pressure/depth data from ARGO profiles", << >>))
        ELSE IF AnyIn(query_lower, LocationWords)
        THEN Answer(SqlLocation, Text("Showing ARGO float locations and deployment information", << >>))
        ELSE IF AnyIn(query_lower, AnomalyWords)
        THEN IF Has(<<"t","e","m","p","e","r","a","t","u","r","e">>)
             THEN Answer(SqlAnomalyTemp, Text("Retrieving temperature-related anomalies detected by the system", << >>))
             ELSE IF Has(<<"s","a","l","i","n","i","t","y">>)
             THEN Answer(SqlAnomalySal, Text("Retrieving salinity-related anomalies detected by the system", << >>))
             ELSE Answer(SqlAnomaly, Text("Retrieving recent ocean anomalies detected by the system", << >>))
        ELSE IF AnyIn(query_lower, FloatWords)
        THEN IF Has(<<"a","c","t","i","v","e">>)
             THEN Answer(SqlFloatActive, Text("Retrieving information about currently active ARGO floats", << >>))
             ELSE IF Has(<<"p","r","o","j","e","c","t">>)
             THEN Answer(SqlFloatProject, Text("Showing ARGO float distribution by research projects", << >>))
             ELSE Answer(SqlFloat, Text("Retrieving information about ARGO floats", << >>))
        ELSE IF AnyIn(query_lower, DataWords)
        THEN IF Has(<<"r","e","c","e","n","t">>) \/ Has(<<"l","a","t","e","s","t">>) \/ Has(<<"n","e","w">>)
             THEN Answer(SqlDataRecent, Text("Showing the most recent oceanographic measurements", << >>))
             ELSE Answer(SqlDataSummary, Text("Providing summary statistics of all oceanographic data", << >>))
        ELSE IF AnyIn(query_lower, ScientistWords)
        THEN Answer(SqlScientist, Text("Showing research projects and principal investigators", << >>))
        ELSE IF AnyIn(query_lower, TimeWords)
        THEN Answer(SqlTime, Text("Showing recent oceanographic measurements ordered by date", << >>))
        ELSE Answer(SqlFallback,
                    Text("Showing sample ARGO float data for query: '{query}'. Try asking about temperature, salinity, anomalies, floats, locations, or recent data!",
                         <<query>>))

\* ---- the tables of argo_platform.db.  Dates are numbers yyyymmdd,
\* temperatures, salinities, pressures and confidences are tenths.

EmptyDb == [argo_floats |-> << >>, argo_profiles |-> << >>, ocean_anomalies |-> << >>]

sample_floats == <<
    [float_id |-> "ARGO_1001", project_name |-> "Global Ocean Monitoring",
     pi_name |-> "Dr. Ocean Smith", data_center |-> "AOML",
     deployment_date |-> 20230115, status |-> "active"],
    [float_id |-> "ARGO_1002", project_name |-> "Pacific Climate Study",
     pi_name |-> "Dr. Marine Johnson", data_center |-> "PMEL",
     deployment_date |-> 20230220, status |-> "active"],
    [float_id |-> "ARGO_1003", project_name |-> "Atlantic Research",
     pi_name |-> "Dr. Deep Waters", data_center |-> "WHOI",
     deployment_date |-> 20230310, status |-> "active"] >>

sample_profiles == <<
    [float_id |-> "ARGO_1001", date_time |-> 20230120,
     ocean_temperature |-> 185, salinity |-> 352, pressure |-> 100],
    [float_id |-> "ARGO_1002", date_time |-> 20230225,
     ocean_temperature |-> 168, salinity |-> 348, pressure |-> 150],
    [float_id |-> "ARGO_1003", date_time |-> 20230315,
     ocean_temperature |-> 221, salinity |-> 365, pressure |-> 50] >>

sample_anomalies == <<
    [float_id |-> "ARGO_1001", anomaly_type |-> <<"t","e","m","p","e","r","a","t","u","r","e","_","s","p","i","k","e">>,
     severity |-> "medium", detected_at |-> 20230125, confidence |-> 8],
    [float_id |-> "ARGO_1002", anomaly_type |-> <<"s","a","l","i","n","i","t","y","_","d","r","o","p">>,
     severity |-> "high", detected_at |-> 20230228, confidence |-> 9] >>

\* a database file an earlier deployment left behind: the sample floats,
\* since marked inactive, and no profiles or anomalies
RetiredDb ==
    [argo_floats |-> [i \in 1..Len(sample_floats) |->
                         [sample_floats[i] EXCEPT !.status = "inactive"] @@ [id |-> i]],
     argo_profiles |-> << >>,
     ocean_anomalies |-> << >>]

\* the database files the prototype may find when it starts
ExistingDbs == {EmptyDb, RetiredDb}

\* the id SQLite gives a row inserted without one: the largest id plus one
NextId(table) ==
    IF Len(table) = 0 THEN 1
    ELSE 1 + (CHOOSE m \in {table[i].id : i \in 1..Len(table)} :
                 \A i \in 1..Len(table) : table[i].id <= m)

\* INSERT OR IGNORE INTO argo_floats: float_id is UNIQUE, a row whose
\* float_id is there already is ignored
RECURSIVE InsertFloats(_, _)
InsertFloats(table, rows) ==
    IF Len(rows) = 0 THEN table
    ELSE IF \E i \in 1..Len(table) : table[i].float_id = rows[1].float_id
         THEN InsertFloats(table, Tail(rows))
         ELSE InsertFloats(Append(table, rows[1] @@ [id |-> NextId(table)]), Tail(rows))

\* INSERT OR IGNORE INTO a table whose only constraint is the primary key
\* id, which the statement does not give: every row is inserted
RECURSIVE InsertRows(_, _)
InsertRows(table, rows) ==
    IF Len(rows) = 0 THEN table
    ELSE InsertRows(Append(table, rows[1] @@ [id |-> NextId(table)]), Tail(rows))

\* init_database: CREATE TABLE IF NOT EXISTS, then the three inserts
init_database(d) ==
    [argo_floats |-> InsertFloats(d.argo_floats, sample_floats),
     argo_profiles |-> InsertRows(d.argo_profiles, sample_profiles),
     ocean_anomalies |-> InsertRows(d.ocean_anomalies, sample_anomalies)]

\* rows sorted by the number Key gives, ascending; ties keep table order
SortBy(rows, Key(_)) ==
    LET Before(j, i) == Key(rows[j]) < Key(rows[i]) \/ (Key(rows[j]) = Key(rows[i]) /\ j < i)
        Place(i) == 1 + Cardinality({j \in 1..Len(rows) : Before(j, i)})
    IN  [k \in 1..Len(rows) |-> rows[CHOOSE i \in 1..Len(rows) : Place(i) = k]]

Limit(rows, n) == SubSeq(rows, 1, IF Len(rows) < n THEN Len(rows) ELSE n)

\* one row per group of GROUP BY, with COUNT(*), most numerous first
GroupCount(rows, GroupOf(_)) ==
    LET groups == {GroupOf(rows[i]) : i \in 1..Len(rows)}
        Count(g) == Cardinality({i \in 1..Len(rows) : GroupOf(rows[i]) = g})
        RECURSIVE Ordered(_)
        Ordered(gs) ==
            IF gs = {} THEN << >>
            ELSE LET g == CHOOSE x \in gs : \A y \in gs : Count(y) <= Count(x)
                 IN  <<[group |-> g, float_count |-> Count(g)]>> \o Ordered(gs \ {g})
    IN  Ordered(groups)

\* anomaly_type LIKE '%word%' (LIKE ignores the case of ASCII letters)
Like(value, word) == Contains(Lower(value), Lower(word))

\* cursor.execute(sql) and fetchall() on the prototype's tables, for the SQL
\* texts of process_natural_language_query; no column of the sample rows is
\* NULL.  ok is FALSE when SQLite raises
RunProtoSql(sql, d) ==
    LET P == d.argo_profiles
        F == d.argo_floats
        A == d.ocean_anomalies
        Rows(r) == [ok |-> TRUE, rows |-> r]
    IN  CASE sql = SqlTempHigh -> Rows(Limit(SortBy(P, LAMBDA r : 0 - r.ocean_temperature), 10))
          [] sql = SqlTempLow -> Rows(Limit(SortBy(P, LAMBDA r : r.ocean_temperature), 10))
          [] sql = SqlTempRecent -> Rows(Limit(SortBy(P, LAMBDA r : 0 - r.date_time), 15))
          [] sql = SqlSalHigh -> Rows(Limit(SortBy(P, LAMBDA r : 0 - r.salinity), 10))
          [] sql = SqlSalLow -> Rows(Limit(SortBy(P, LAMBDA r : r.salinity), 10))
          [] sql = SqlSalRecent -> Rows(Limit(SortBy(P, LAMBDA r : 0 - r.date_time), 15))
          [] sql = SqlPressureDeep -> Rows(Limit(SortBy(P, LAMBDA r : 0 - r.pressure), 10))
          [] sql = SqlPressure -> Rows(Limit(SortBy(P, LAMBDA r : 0 - r.pressure), 15))
          [] sql = SqlLocation -> Rows(Limit(SortBy(F, LAMBDA r : 0 - r.deployment_date), 15))
          [] sql = SqlAnomalyTemp ->
                Rows(Limit(SortBy(SelectRows(A, LAMBDA r : Like(r.anomaly_type, <<"t","e","m","p","e","r","a","t","u","r","e">>)),
                                  LAMBDA r : 0 - r.detected_at), 10))
          [] sql = SqlAnomalySal ->
                Rows(Limit(SortBy(SelectRows(A, LAMBDA r : Like(r.anomaly_type, <<"s","a","l","i","n","i","t","y">>)),
                                  LAMBDA r : 0 - r.detected_at), 10))
          [] sql = SqlAnomaly ->
                Rows(Limit(SortBy(A, LAMBDA r : 0 - (r.confidence * 100000000 + r.detected_at)), 10))
          [] sql = SqlFloatActive ->
                Rows(SortBy(SelectRows(F, LAMBDA r : r.status = "active"),
                            LAMBDA r : 0 - r.deployment_date))
          [] sql = SqlFloatProject ->
                Rows(GroupCount(F, LAMBDA r : <<r.project_name, r.data_center>>))
          [] sql = SqlFloat -> Rows(Limit(SortBy(F, LAMBDA r : 0 - r.deployment_date), 10))
          [] sql = SqlDataRecent -> Rows(Limit(SortBy(P, LAMBDA r : 0 - r.date_time), 15))
          [] sql = SqlDataSummary -> Rows(<<[total_profiles |-> Len(P)]>>)
          [] sql = SqlScientist ->
                Rows(GroupCount(F, LAMBDA r : <<r.pi_name, r.project_name>>))
          [] sql = SqlTime -> Rows(Limit(SortBy(P, LAMBDA r : 0 - r.date_time), 20))
          [] sql = SqlFallback -> Rows(Limit(F, 8))
          [] OTHER -> [ok |-> FALSE, rows |-> << >>]

\* POST /api/query: the QueryResponse, or the HTTPException of status 500
\* when anything in the handler raises
natural_language_query(query, d) ==
    LET answer == process_natural_language_query(query)
        res == RunProtoSql(answer.sql, d)
    IN  IF res.ok
        THEN [request |-> query, status |-> 200, sql_query |-> answer.sql,
              results |-> res.rows, explanation |-> answer.explanation,
              confidence_score |-> 9]
        ELSE [request |-> query, status |-> 500, sql_query |-> answer.sql,
              results |-> << >>, explanation |-> Text("Query processing error: {e}", << >>),
              confidence_score |-> 0]

\* SELECT COUNT(*) FROM argo_floats WHERE status = 'active'
CountActive(table) ==
    Cardinality({i \in 1..Len(table) : table[i].status = "active"})

\* get_dashboard_data: the four counts (coverage_stats is a fixed literal)
get_dashboard_data(d) ==
    [status |-> 200,
     total_floats |-> Len(d.argo_floats),
     active_floats |-> CountActive(d.argo_floats),
     total_profiles |-> Len(d.argo_profiles),
     recent_anomalies |-> Len(d.ocean_anomalies)]

-----------------------------------------------------------------------------
(* The alert service, argo-platform/backend/app/services/alert_service.py. *)
(*                                                                         *)
(* The detector compares a deviation with multiples of a standard          *)
(* deviation, which is a square root.  A non-negative real x is the pair   *)
(* [num, den] of naturals with x^2 = num / den, and x > (p/q) * y is       *)
(* decided on the squares, exactly.                                        *)

Magnitude(num, den) == [num |-> num, den |-> den]

\* the magnitude of the whole number d
Whole(d) == Magnitude(d * d, 1)

\* x > (p / q) * y, for magnitudes x and y and naturals p, q
Exceeds(x, p, q, y) == x.num * y.den * q * q > p * p * y.num * x.den

\* the tiers with the labels of the two middle ones exchanged
CalculateSeveritySwapped(deviation, std_dev) ==
    IF Exceeds(deviation, 3, 1, std_dev) THEN "extreme"
    ELSE IF Exceeds(deviation, 2, 1, std_dev) THEN "medium"
    ELSE IF Exceeds(deviation, 3, 2, std_dev) THEN "high"
    ELSE "low"

\* AlertService._calculate_severity, for a deviation that is not negative
\* (its callers pass abs(deviation))
calculate_severity(deviation, std_dev) ==
    IF Exceeds(deviation, 3, 1, std_dev) THEN "extreme"
    ELSE IF Exceeds(deviation, 2, 1, std_dev) THEN "high"
    ELSE IF Exceeds(deviation, 3, 2, std_dev) THEN "medium"
    ELSE "low"

\* ---- the rows the detectors read.  A row is a measurement joined with
\* its profile: latitude and longitude in tenths of a degree, the date as a
\* day number counted from the day of the run (0), temperature and salinity whole numbers or NULL.

NULL == -1

\* timedelta(days=7): the look-back window of run_anomaly_detection
since_date_days == 7

MinMeasurements == 10

MeasurementKinds == {
    [latitude |-> 102, longitude |-> 1200, profile_date |-> -5, depth |-> 5,
     temperature |-> 0, salinity |-> 0],
    [latitude |-> 106, longitude |-> 1200, profile_date |-> -4, depth |-> 0,
     temperature |-> 0, salinity |-> 0],
    [latitude |-> 114, longitude |-> 1204, profile_date |-> -2, depth |-> 10,
     temperature |-> 1, salinity |-> 1],
    [latitude |-> 114, longitude |-> 1204, profile_date |-> -1, depth |-> 50,
     temperature |-> 1, salinity |-> 1],
    [latitude |-> 106, longitude |-> 1200, profile_date |-> -3, depth |-> 5,
     temperature |-> NULL, salinity |-> 1],
    [latitude |-> 114, longitude |-> 1204, profile_date |-> -10, depth |-> 5,
     temperature |-> 1, salinity |-> 1] }

\* the rows of the table as a list, each kind as often as the table holds it
\* (the queries give no ORDER BY: any order is a possible answer)
RECURSIVE Repeat(_, _)
Repeat(x, n) == IF n = 0 THEN << >> ELSE <<x>> \o Repeat(x, n - 1)

RECURSIVE RowsOf(_, _)
RowsOf(bag, kinds) ==
    IF kinds = {} THEN << >>
    ELSE LET k == CHOOSE x \in kinds : TRUE
         IN  Repeat(k, bag[k]) \o RowsOf(bag, kinds \ {k})

\* Python's round(x) of a number given in tenths: the nearest whole number,
\* a tie going to the even one
RoundTenths(t) ==
    LET q == t \div 10
        r == t % 10
    IN  IF r < 5 THEN q
        ELSE IF r > 5 THEN q + 1
        ELSE IF q % 2 = 0 THEN q ELSE q + 1

RECURSIVE SumField(_, _)
SumField(rows, field) ==
    IF Len(rows) = 0 THEN 0 ELSE rows[1][field] + SumField(Tail(rows), field)

RECURSIVE SumSquares(_, _)
SumSquares(rows, field) ==
    IF Len(rows) = 0 THEN 0
    ELSE rows[1][field] * rows[1][field] + SumSquares(Tail(rows), field)

\* the WHERE clause of the detectors' query, for the column field
Qualifies(row, field) ==
    /\ row.profile_date >= 0 - since_date_days
    /\ row[field] # NULL
    /\ row.depth <= 10

CellOf(row) == <<RoundTenths(row.latitude), RoundTenths(row.longitude)>>

\* the keys of location_groups in the order the loop first meets them
RECURSIVE GroupKeys(_, _)
GroupKeys(rows, seen) ==
    IF Len(rows) = 0 THEN << >>
    ELSE IF CellOf(rows[1]) \in seen THEN GroupKeys(Tail(rows), seen)
         ELSE <<CellOf(rows[1])>> \o GroupKeys(Tail(rows), seen \cup {CellOf(rows[1])})

MinOf(S) == CHOOSE x \in S : \A y \in S : x <= y
MaxOf(S) == CHOOSE x \in S : \A y \in S : y <= x

\* group_mean - mean, times n * Len(group): a whole number of the same sign
ScaledDeviation(group, all, field) ==
    Len(all) * SumField(group, field) - Len(group) * SumField(all, field)

\* abs(deviation), as a magnitude
AbsDeviation(group, all, field) ==
    LET d == ScaledDeviation(group, all, field)
        m == Len(all) * Len(group)
    IN  Magnitude(d * d, m * m)

\* np.std of the column: the population standard deviation, as a magnitude
StdDev(all, field) ==
    LET n == Len(all)
        s == SumField(all, field)
    IN  Magnitude(n * SumSquares(all, field) - s * s, n * n)

\* the body of the loop over location_groups, for the groups keys[k..]:
\* the list of anomalies.  threshold is p/q standard deviations, cap the
\* divisor of the confidence score
RECURSIVE CheckGroups(_, _, _, _, _, _, _, _)
CheckGroups(keys, k, all, field, p, q, cap, names) ==
    IF k > Len(keys) THEN << >>
    ELSE LET group == SelectRows(all, LAMBDA r : CellOf(r) = keys[k])
             dev == AbsDeviation(group, all, field)
             std == StdDev(all, field)
             dates == {group[i].profile_date : i \in 1..Len(group)}
             rest == CheckGroups(keys, k + 1, all, field, p, q, cap, names)
         IN  IF Exceeds(dev, p, q, std)
             THEN <<[anomaly_type |-> IF ScaledDeviation(group, all, field) > 0
                                      THEN names[1] ELSE names[2],
                     severity |-> calculate_severity(dev, std),
                     start_date |-> MinOf(dates),
                     end_date |-> MaxOf(dates),
                     latitude |-> keys[k][1],
                     longitude |-> keys[k][2],
                     \* min(0.95, abs(deviation) / (cap * std)) is 0.95
                     confidence_capped |-> ~Exceeds(std, 100, 95 * cap, dev),
                     data_source |-> "ARGO"]>> \o rest
             ELSE rest

\* the detectors without the test on the number of measurements
DetectAnomaliesUnchecked(rows, field, p, q, cap, names) ==
    LET found == SelectRows(rows, LAMBDA r : Qualifies(r, field))
    IN  CheckGroups(GroupKeys(found, {}), 1, found, field, p, q, cap, names)

\* the common body of the two detectors on the rows of the table
DetectAnomalies(rows, field, p, q, cap, names) ==
    LET found == SelectRows(rows, LAMBDA r : Qualifies(r, field))
    IN  IF Len(found) < MinMeasurements THEN << >>
        ELSE CheckGroups(GroupKeys(found, {}), 1, found, field, p, q, cap, names)

\* the temperature detector with the threshold of the salinity detector
DetectTemperatureAtOneAndHalfSigma(rows) ==
    DetectAnomalies(rows, "temperature", 3, 2, 3, <<"heatwave", "cold_spell">>)

\* AlertService._detect_temperature_anomalies: 2 standard deviations
detect_temperature_anomalies(rows) ==
    DetectAnomalies(rows, "temperature", 2, 1, 3, <<"heatwave", "cold_spell">>)

\* the salinity detector with the threshold of the temperature detector
DetectSalinityAtTwoSigma(rows) ==
    DetectAnomalies(rows, "salinity", 2, 1, 2, <<"high_salinity", "low_salinity">>)

\* AlertService._detect_salinity_anomalies: 1.5 standard deviations
detect_salinity_anomalies(rows) ==
    DetectAnomalies(rows, "salinity", 3, 2, 2, <<"high_salinity", "low_salinity">>)

-----------------------------------------------------------------------------
(* The data service, argo-platform/backend/app/services/data_service.py.   *)

max_query_results == 10000

DataServiceDepths == <<0, 10, 50, 100, 200, 500, 1000>>

\* the temperature of one record of _generate_sample_data, in hundredths
FallbackTemperature(depth, v) ==
    IF depth <= 50 THEN Round2(uniform(15, 30, v))
    ELSE IF depth <= 200 THEN Round2(uniform(8, 20, v))
    ELSE Round2(uniform(2, 8, v))

fallback_records == 50

\* DataService._generate_sample_data: fallback_records records, each from six
\* draws in the order of the code (lat, lon, depth, temp, salinity, days)
generate_sample_data(seed) ==
    [i \in 1..fallback_records |->
        LET k == 6 * (i - 1)
            depth == choice(DataServiceDepths, Rand(seed, k + 3))
        IN  [latitude |-> uniform(-60, 60, Rand(seed, k + 1)),
             longitude |-> uniform(-180, 180, Rand(seed, k + 2)),
             profile_date |-> 0 - randint(0, 364, Rand(seed, k + 6)),
             depth |-> depth,
             temperature |-> FallbackTemperature(depth, Rand(seed, k + 4)),
             salinity |-> Round2(uniform(34, 37, Rand(seed, k + 5))),
             float_id |-> 1000 + ((i - 1) % 10)]]

\* str.rstrip(';')
RECURSIVE RStripSemicolons(_)
RStripSemicolons(s) ==
    IF Len(s) > 0 /\ s[Len(s)] = ";" THEN RStripSemicolons(SubSeq(s, 1, Len(s) - 1))
    ELSE s

\* ---- the database behind the session.  Its tables hold table_rows rows
\* each; a statement is  SELECT * FROM argo_measurements [WHERE ...]
\* [LIMIT n][;]  and anything else is a syntax error.

SqlSelect == <<"S","E","L","E","C","T"," ","*"," ","F","R","O","M"," ","a","r","g","o","_","m","e","a","s","u","r","e","m","e","n","t","s">>
SqlWhere == <<" ","W","H","E","R","E"," ","q","u","a","l","i","t","y","_","f","l","a","g"," ","!","="," ","'","u","n","l","i","m","i","t","e","d","'">>
SqlLimitWord == <<" ","L","I","M","I","T"," ">>

EndsWith(s, suffix) ==
    Len(s) >= Len(suffix) /\ SubSeq(s, Len(s) - Len(suffix) + 1, Len(s)) = suffix

\* the index where the digits that end s begin (Len(s) + 1 if none do)
RECURSIVE DigitsStart(_, _)
DigitsStart(s, i) ==
    IF i >= 1 /\ IsDigit(s[i]) THEN DigitsStart(s, i - 1) ELSE i + 1

\* the statement split into its body and its LIMIT; keywords are matched
\* whatever their case, and empty statements after the first are dropped
ParseSql(sql) ==
    LET s == RStripSemicolons(sql)
        d == DigitsStart(s, Len(s))
        head == SubSeq(s, 1, d - 1)
    IN  IF d <= Len(s) /\ EndsWith(Upper(head), SqlLimitWord)
        THEN [body |-> SubSeq(head, 1, Len(head) - Len(SqlLimitWord)),
              limited |-> TRUE, limit |-> ToNat(SubSeq(s, d, Len(s)))]
        ELSE [body |-> s, limited |-> FALSE, limit |-> 0]

ValidBody(body) ==
    \/ Upper(body) = Upper(SqlSelect)
    \/ /\ StartsWith(Upper(body), Upper(SqlSelect))
       /\ SubSeq(body, Len(SqlSelect) + 1, Len(body)) = SqlWhere

Min(a, b) == IF a < b THEN a ELSE b

\* db.execute(text(sql)) and fetchall(): the number of rows fetched, or
\* raised when the statement is not valid or the database fails
DbExecute(sql, nrows, fails) ==
    LET stmt == ParseSql(sql)
    IN  IF fails \/ ~ValidBody(stmt.body)
        THEN [raised |-> TRUE, count |-> 0]
        ELSE [raised |-> FALSE,
              count |-> IF stmt.limited THEN Min(nrows, stmt.limit) ELSE nrows]

Returned(source, count, rows) ==
    [raised |-> FALSE, source |-> source, count |-> count, rows |-> rows]

Raised == [raised |-> TRUE, source |-> "exception", count |-> 0, rows |-> << >>]

sample_limit == 100

\* a get_sample_data without its except clause
GetSampleDataRaises(nrows, fails) ==
    IF fails THEN Raised
    ELSE Returned("sample", Min(nrows, sample_limit), << >>)

\* DataService.get_sample_data: the joined rows, at most limit of them; the
\* synthetic records when the query raises
get_sample_data(nrows, fails) ==
    IF fails THEN Returned("generated", fallback_records, generate_sample_data(Seed42))
    ELSE Returned("sample", Min(nrows, sample_limit), << >>)

\* the statement execute_query sends: a LIMIT is added unless the text
\* holds the word already
WithLimit(sql_query) ==
    IF ~Contains(Upper(sql_query), <<"L","I","M","I","T">>)
    THEN RStripSemicolons(sql_query) \o SqlLimitWord \o ToText(max_query_results) \o <<";">>
    ELSE sql_query

\* DataService.execute_query on a database whose tables hold nrows rows;
\* fails_query and fails_sample say which of the two statements the
\* database fails.  A result holds the number of its records, and the
\* records themselves when they are the synthetic ones
data_execute_query(sql_query, nrows, fails_query, fails_sample) ==
    LET res == DbExecute(WithLimit(sql_query), nrows, fails_query)
    IN  IF res.raised THEN get_sample_data(nrows, fails_sample)
        ELSE Returned("query", res.count, << >>)

-----------------------------------------------------------------------------
(* The sample data generator, argo-platform/data/generate_sample_data.py.  *)

\* self.float_ids: "ARGO_1000" to "ARGO_1019", by their numbers
float_ids == [i \in 1..20 |-> 1000 + (i - 1)]

region_names == <<"north_atlantic", "south_atlantic", "north_pacific",
                  "south_pacific", "indian_ocean", "southern_ocean">>

regions ==
    [north_atlantic |-> [lat |-> <<40, 60>>, lon |-> <<-60, -10>>],
     south_atlantic |-> [lat |-> <<-40, -10>>, lon |-> <<-50, 10>>],
     north_pacific |-> [lat |-> <<20, 50>>, lon |-> <<120, 180>>],
     south_pacific |-> [lat |-> <<-50, -20>>, lon |-> <<120, 180>>],
     indian_ocean |-> [lat |-> <<-40, 20>>, lon |-> <<40, 120>>],
     southern_ocean |-> [lat |-> <<-70, -40>>, lon |-> <<-180, 180>>]]

profile_depths == <<0, 10, 20, 30, 50, 75, 100, 125, 150, 200, 250, 300, 400,
                    500, 600, 750, 1000, 1250, 1500, 1750, 2000>>

\* the first band tested with < in place of <=
ProfileTemperatureStrict(depth, v) ==
    IF depth < 50 THEN Round2(uniform(20, 30, v))
    ELSE IF depth <= 200 THEN Round2(uniform(10, 20, v))
    ELSE IF depth <= 1000 THEN Round2(uniform(4, 12, v))
    ELSE Round2(uniform(1, 5, v))

\* the temperature of one measurement of generate_measurements, in hundredths
ProfileTemperature(depth, v) ==
    IF depth <= 50 THEN Round2(uniform(20, 30, v))
    ELSE IF depth <= 200 THEN Round2(uniform(10, 20, v))
    ELSE IF depth <= 1000 THEN Round2(uniform(4, 12, v))
    ELSE Round2(uniform(1, 5, v))

\* uniform(lo, hi) for bounds given in thousandths
uniform_milli(lo, hi, v) == lo + ((hi - lo) * v) \div (RandMod - 1)

\* ARGODataGenerator.generate_measurements, drawing from draw k + 1 on: one
\* measurement per depth, four draws each
generate_measurements(seed, k) ==
    [j \in 1..Len(profile_depths) |->
        LET depth == profile_depths[j]
            d == k + 4 * (j - 1)
        IN  [depth |-> depth,
             pressure |-> depth * 102,
             temperature |-> ProfileTemperature(depth, Rand(seed, d + 1)),
             salinity |-> IF depth <= 100
                          THEN Round2(uniform_milli(34500, 36500, Rand(seed, d + 2)))
                          ELSE Round2(uniform(34, 35, Rand(seed, d + 2))),
             oxygen |-> IF depth <= 100 THEN Round1(uniform(200, 300, Rand(seed, d + 3)))
                        ELSE IF depth <= 500 THEN Round1(uniform(100, 200, Rand(seed, d + 3)))
                        ELSE Round1(uniform(150, 250, Rand(seed, d + 3))),
             quality_flag |-> choice(<<"1", "1", "1", "2", "3">>, Rand(seed, d + 4))]]

\* the draws one profile takes
DrawsPerProfile == 5 + 4 * Len(profile_depths) + 2

\* the loop of a generator: `for _ in range(n)' appending Make(i)
Repeated(n, Make(_)) == [i \in 1..n |-> Make(i)]

\* ARGODataGenerator.generate_argo_profiles
generate_argo_profiles(num_profiles, seed) ==
    Repeated(num_profiles, LAMBDA i :
        LET k == DrawsPerProfile * (i - 1)
            region_name == choice(region_names, Rand(seed, k + 1))
            region == regions[region_name]
            float_id == choice(float_ids, Rand(seed, k + 2))
        IN  [float_id |-> float_id,
             platform_number |-> float_id,
             profile_date |-> 0 - randint(0, 365, Rand(seed, k + 3)),
             latitude |-> uniform(region.lat[1], region.lat[2], Rand(seed, k + 4)),
             longitude |-> uniform(region.lon[1], region.lon[2], Rand(seed, k + 5)),
             cycle_number |-> randint(1, 200, Rand(seed, k + 5 + 4 * Len(profile_depths) + 1)),
             profile_type |-> "primary",
             data_mode |-> choice(<<"R", "D">>, Rand(seed, k + 5 + 4 * Len(profile_depths) + 2)),
             project_name |-> <<region_name, "Study">>,
             measurements |-> generate_measurements(seed, k + 5)])

satellites == <<"MODIS-Aqua", "MODIS-Terra", "VIIRS-SNPP", "Sentinel-3A", "Sentinel-3B">>
data_types == <<"SST", "chlorophyll", "sea_level_anomaly">>

\* satellite.split("-")[0]
instrument_of(satellite) ==
    CASE satellite \in {"MODIS-Aqua", "MODIS-Terra"} -> "MODIS"
      [] satellite = "VIIRS-SNPP" -> "VIIRS"
      [] OTHER -> "Sentinel"

\* ARGODataGenerator.generate_satellite_data: seven draws a record
generate_satellite_data(num_records, seed) ==
    Repeated(num_records, LAMBDA i :
        LET k == 7 * (i - 1)
            data_type == choice(data_types, Rand(seed, k + 5))
            v == Rand(seed, k + 6)
        IN  [satellite_name |-> choice(satellites, Rand(seed, k + 4)),
             instrument |-> instrument_of(choice(satellites, Rand(seed, k + 4))),
             data_type |-> data_type,
             measurement_date |-> 0 - randint(0, 30, Rand(seed, k + 3)),
             latitude |-> uniform(-70, 70, Rand(seed, k + 1)),
             longitude |-> uniform(-180, 180, Rand(seed, k + 2)),
             value |-> IF data_type = "SST" THEN Round2(uniform(-2, 35, v))
                       ELSE IF data_type = "chlorophyll"
                       THEN Round2(uniform_milli(100, 10000, v))
                       ELSE Round2(uniform_milli(-500, 500, v)),
             unit |-> IF data_type = "SST" THEN "Celsius"
                      ELSE IF data_type = "chlorophyll" THEN "mg/m^3" ELSE "meters",
             quality_level |-> choice(<<"L2", "L3">>, Rand(seed, k + 7))])

\* the record of the i-th pass of the loop of generate_buoy_data: eleven
\* draws
buoy_record(seed, i) ==
    LET k == 11 * (i - 1)
    IN  [buoy_id |-> randint(10000, 99999, Rand(seed, k + 4)),
         buoy_type |-> choice(<<"moored", "drifting">>, Rand(seed, k + 5)),
         measurement_date |-> 0 - randint(0, 24 * 7, Rand(seed, k + 3)),
         latitude |-> uniform(-60, 60, Rand(seed, k + 1)),
         longitude |-> uniform(-180, 180, Rand(seed, k + 2)),
         sea_surface_temperature |-> Round2(uniform(0, 35, Rand(seed, k + 6))),
         air_temperature |-> Round2(uniform(-10, 40, Rand(seed, k + 7))),
         wind_speed |-> Round1(uniform(0, 25, Rand(seed, k + 8))),
         wind_direction |-> randint(0, 360, Rand(seed, k + 9)),
         wave_height |-> Round1(uniform(0, 8, Rand(seed, k + 10))),
         atmospheric_pressure |-> Round1(uniform(980, 1030, Rand(seed, k + 11)))]

\* a loop that stops one pass early
GenerateBuoyDataOneShort(num_records, seed) ==
    Repeated(num_records - 1, LAMBDA i : buoy_record(seed, i))

\* ARGODataGenerator.generate_buoy_data
generate_buoy_data(num_records, seed) ==
    Repeated(num_records, LAMBDA i : buoy_record(seed, i))

-----------------------------------------------------------------------------
(* Inputs and bounds.                                                      *)

MaxPrompts == 2
MaxStartups == 2
MaxDeviation == 8
MaxStd == 3
MaxMeasurements == 11
MaxRecords == 3

\* one word, or a first word and a second one with a space between
Phrases(leads, tails) ==
    leads \cup tails \cup {l \o Space \o t : l \in leads, t \in tails}

ChatLeads == { <<"s","a","l","i","n","i","t","y">>, <<"T","e","m","p","e","r","a","t","u","r","e">>, <<"m","a","r","c","h">>, <<"s","u","r","f","a","c","e">>, <<"d","e","e","p","e","r">>,
               <<"f","l","o","a","t">>, <<"F","L","O","A","T">>, <<"f","l","o","a","t","7">>, <<"f","l","o","a","t"," ">>, <<"h","e","l","l","o">> }
ChatTails == { <<"7">>, <<"s","a","l","i","n","i","t","y">>, <<"a","l","l">> }
ChatQueries ==
    Phrases(ChatLeads, ChatTails)
        \cup { <<"F","L","O","A","T"," ","1","0","0","1">>, <<"f", "l", "o", "a", "t", "\t", "7">>,
               <<"s","a","l","i","n","i","t","y"," ","f","l","o","a","t"," ","7">>, <<"A","l","l"," ","T","e","m","p","e","r","a","t","u","r","e"," ","F","L","O","A","T"," ","1","2"," ","d","e","e","p">>,
               <<"f","l","o","a","t"," ","3"," ","f","l","o","a","t"," ","4">>, <<"s","h","o","w"," ","f","l","o","a","t"," ","d","a","t","a">> }

\* the requests sent to /api/query: one for each SQL text, and more
Requests ==
    { <<"T","e","m","p","e","r","a","t","u","r","e"," ","h","i","g","h">>, <<"T","e","m","p","e","r","a","t","u","r","e"," ","l","o","w">>, <<"T","e","m","p","e","r","a","t","u","r","e">>,
      <<"s","a","l","t"," ","h","i","g","h">>, <<"s","a","l","t"," ","l","o","w">>, <<"s","a","l","t">>, <<"d","e","p","t","h"," ","h","i","g","h">>, <<"d","e","p","t","h">>,
      <<"o","c","e","a","n">>, <<"a","n","o","m","a","l","i","e","s"," ","t","e","m","p","e","r","a","t","u","r","e">>, <<"a","n","o","m","a","l","i","e","s"," ","s","a","l","i","n","i","t","y">>, <<"a","n","o","m","a","l","i","e","s">>,
      <<"f","l","o","a","t"," ","a","c","t","i","v","e">>, <<"f","l","o","a","t"," ","p","r","o","j","e","c","t">>, <<"f","l","o","a","t">>, <<"d","a","t","a"," ","r","e","c","e","n","t">>, <<"d","a","t","a">>,
      <<"s","c","i","e","n","t","i","s","t">>, <<"r","e","c","e","n","t">>, <<"h","e","l","l","o">>, <<"s","h","i","p","p","i","n","g">>, <<"a","n","o","m","a","l","i","e","s"," ","h","i","g","h">> }

ProtoLeads == { <<"T","e","m","p","e","r","a","t","u","r","e">>, <<"s","a","l","t">>, <<"d","e","p","t","h">>, <<"o","c","e","a","n">>, <<"a","n","o","m","a","l","i","e","s">>,
                <<"f","l","o","a","t">>, <<"d","a","t","a">>, <<"s","c","i","e","n","t","i","s","t">>, <<"r","e","c","e","n","t">>, <<"h","e","l","l","o">> }
ProtoTails == { <<"h","i","g","h">>, <<"l","o","w">>, <<"t","e","m","p","e","r","a","t","u","r","e">>, <<"s","a","l","i","n","i","t","y">>, <<"a","c","t","i","v","e">> }
ProtoQueries == Phrases(ProtoLeads, ProtoTails) \cup Requests

\* the prompts of a chat session: one of each outcome
SessionPrompts == { <<"f","l","o","a","t"," ","7">>, <<"F","L","O","A","T"," ","1","0","0","1">>, <<"f","l","o","a","t">>, <<"T","e","m","p","e","r","a","t","u","r","e">>,
                    <<"d","e","e","p","e","r">>, <<"h","e","l","l","o">> }

\* the frames generate_ai_summary is called with: None, and what the
\* queries of the chat demo give
SummaryFrames ==
    {None} \cup
    {execute_query(parse_query(InitialPatterns, q), create_sample_data(Seed42)).df :
        q \in ChatQueries}

DataSqlBodies == {SqlSelect, Lower(SqlSelect), SqlSelect \o SqlWhere, <<"S","E","L","E","C"," ","*"," ","F","R","O","M">> }
LimitClauses == {<< >>, <<" ","L","I","M","I","T"," ","5">>, <<" ","l","i","m","i","t"," ","5">>, <<" ","L","I","M","I","T"," ","2","0","0","0","0">> }
Terminators == {<< >>, <<";">>, <<";",";">> }
DataQueries == {b \o l \o t : b \in DataSqlBodies, l \in LimitClauses, t \in Terminators}

TableSizes == {0, 3, sample_limit + 1, max_query_results,
               max_query_results + 1, 2 * max_query_results + 1}

-----------------------------------------------------------------------------
(* The state machine.                                                      *)

AppIdle ==
    patterns = None /\ argo_data = None /\ messages = None /\ summary = None
ProtoIdle == started = None /\ db = None /\ response = None /\ dashboard = None
HistoryIdle == parsed = None /\ remembered = None /\ between = None
AlertIdle == severity_calls = None /\ measurements = None /\ detected = None
DataIdle == table_rows = None /\ query_result = None
GenIdle == generated = None
MainIdle ==
    /\ bound = None /\ app_state = None /\ http = None /\ background = None
    /\ clock = None /\ inflight = None
AuthIdle == users = None /\ login_result = None /\ logins = None
RunIdle == store = None /\ session = None /\ run = None /\ emails = None
BackendIdle == MainIdle /\ AuthIdle /\ RunIdle

\* the chat demo after initialize_components() and the first run of main()
InitChat ==
    /\ unit = "app.main"
    /\ patterns = InitialPatterns
    /\ argo_data = create_sample_data(Seed42)
    /\ messages = << >>
    /\ summary = None
    /\ ProtoIdle /\ HistoryIdle /\ AlertIdle /\ DataIdle /\ GenIdle /\ BackendIdle

\* a NaturalLanguageParser on its own
InitParser ==
    /\ unit = "NaturalLanguageParser"
    /\ patterns = InitialPatterns
    /\ parsed = None /\ remembered = None /\ between = FALSE
    /\ argo_data = None /\ messages = None /\ summary = None
    /\ ProtoIdle /\ AlertIdle /\ DataIdle /\ GenIdle /\ BackendIdle

InitSummary ==
    /\ unit = "generate_ai_summary"
    /\ summary = None
    /\ patterns = None /\ argo_data = None /\ messages = None
    /\ ProtoIdle /\ HistoryIdle /\ AlertIdle /\ DataIdle /\ GenIdle /\ BackendIdle

\* the prototype backend before its startup event
InitProto ==
    /\ unit = "simple_main"
    /\ started = FALSE
    /\ db \in ExistingDbs
    /\ response = None
    /\ dashboard = None
    /\ AppIdle /\ HistoryIdle /\ AlertIdle /\ DataIdle /\ GenIdle /\ BackendIdle

\* process_natural_language_query on its own
InitProcess ==
    /\ unit = "process_natural_language_query"
    /\ parsed = None /\ remembered = None /\ between = FALSE
    /\ AppIdle /\ ProtoIdle /\ AlertIdle /\ DataIdle /\ GenIdle /\ BackendIdle

InitSeverity ==
    /\ unit = "AlertService._calculate_severity"
    /\ severity_calls = << >>
    /\ measurements = None /\ detected = None
    /\ AppIdle /\ ProtoIdle /\ HistoryIdle /\ DataIdle /\ GenIdle /\ BackendIdle

\* the alert service on an empty table of measurements
InitDetect ==
    /\ unit = "AlertService"
    /\ measurements = [k \in MeasurementKinds |-> 0]
    /\ detected = None
    /\ severity_calls = None
    /\ AppIdle /\ ProtoIdle /\ HistoryIdle /\ DataIdle /\ GenIdle /\ BackendIdle

InitData ==
    /\ unit = "DataService"
    /\ table_rows \in TableSizes
    /\ query_result = None
    /\ AppIdle /\ ProtoIdle /\ HistoryIdle /\ AlertIdle /\ GenIdle /\ BackendIdle

InitGen ==
    /\ unit = "generators"
    /\ generated = None
    /\ AppIdle /\ ProtoIdle /\ HistoryIdle /\ AlertIdle /\ DataIdle /\ BackendIdle


\* the history kept of a matcher's calls: one call, any one of a query
\* among observed, is remembered from then on, and between says whether a
\* different query has been processed since
Remember(query, sql, observed) ==
    /\ parsed' = [query |-> query, sql |-> sql]
    /\ IF remembered = None
       THEN \E start \in {FALSE, (query \in observed)} :
               /\ remembered' = IF start THEN [query |-> query, sql |-> sql] ELSE None
               /\ between' = FALSE
       ELSE /\ remembered' = remembered
            /\ between' = (between \/ query # remembered.query)

\* main(), lines 435-509: the user enters a prompt
Prompt ==
    /\ unit = "app.main"
    /\ Len(messages) < 2 * MaxPrompts
    /\ \E prompt \in SessionPrompts :
        LET sql_query == parse_query(patterns, prompt)
            res == execute_query(sql_query, argo_data)
        IN  /\ messages' = messages \o <<[role |-> "user", content |-> prompt],
                                         AssistantMessage(res.df, res.error)>>
            /\ patterns' = PatternsAfterParse(patterns, prompt)
    /\ UNCHANGED <<unit, vars_backend, argo_data, summary, vars_proto, vars_history,
                   vars_alert, vars_data, vars_gen>>

\* a call of NaturalLanguageParser.parse_query
Parse ==
    /\ unit = "NaturalLanguageParser"
    /\ \E user_query \in ChatQueries :
        /\ patterns' = PatternsAfterParse(patterns, user_query)
        /\ Remember(user_query, parse_query(patterns, user_query), SessionPrompts)
    /\ UNCHANGED <<unit, vars_backend, argo_data, messages, summary, vars_proto,
                   vars_alert, vars_data, vars_gen>>

\* a call of generate_ai_summary
Summarize ==
    /\ unit = "generate_ai_summary"
    /\ summary = None
    /\ \E df \in SummaryFrames :
        summary' = [df |-> df, result |-> generate_ai_summary(df)]
    /\ UNCHANGED <<unit, vars_backend, patterns, argo_data, messages, vars_proto,
                   vars_history, vars_alert, vars_data, vars_gen>>

\* @app.on_event("startup"): the process starts, or starts again
Startup ==
    /\ unit = "simple_main"
    /\ Len(db.argo_profiles) < MaxStartups * Len(sample_profiles)
    /\ db' = init_database(db)
    /\ started' = TRUE
    /\ UNCHANGED <<unit, vars_backend, response, dashboard, vars_app, vars_history,
                   vars_alert, vars_data, vars_gen>>

\* POST /api/query
Query ==
    /\ unit = "simple_main"
    /\ started
    /\ \E query \in Requests :
        response' = natural_language_query(query, db)
    /\ UNCHANGED <<unit, vars_backend, started, db, dashboard, vars_app, vars_history,
                   vars_alert, vars_data, vars_gen>>

\* GET /api/dashboard
Dashboard ==
    /\ unit = "simple_main"
    /\ started
    /\ dashboard' = get_dashboard_data(db)
    /\ UNCHANGED <<unit, vars_backend, started, db, response, vars_app, vars_history,
                   vars_alert, vars_data, vars_gen>>

\* process_natural_language_query on each query of the model
Answers == [query \in ProtoQueries |-> process_natural_language_query(query)]

\* a call of process_natural_language_query
Process ==
    /\ unit = "process_natural_language_query"
    /\ \E query \in ProtoQueries :
        Remember(query, Answers[query].sql, Requests)
    /\ UNCHANGED <<unit, vars_backend, vars_app, vars_proto, vars_alert, vars_data, vars_gen>>

\* a call of AlertService._calculate_severity
CalculateSeverity ==
    /\ unit = "AlertService._calculate_severity"
    /\ Len(severity_calls) < 2
    /\ \E d \in 0..MaxDeviation, s \in 0..MaxStd :
        severity_calls' = Append(severity_calls,
            [deviation |-> d, std_dev |-> s,
             severity |-> calculate_severity(Whole(d), Whole(s))])
    /\ UNCHANGED <<unit, vars_backend, measurements, detected, vars_app, vars_proto,
                   vars_history, vars_data, vars_gen>>

RECURSIVE BagTotal(_, _)
BagTotal(bag, kinds) ==
    IF kinds = {} THEN 0
    ELSE LET k == CHOOSE x \in kinds : TRUE
         IN  bag[k] + BagTotal(bag, kinds \ {k})

\* a measurement is ingested
InsertMeasurement ==
    /\ unit = "AlertService"
    /\ detected = None
    /\ BagTotal(measurements, MeasurementKinds) < MaxMeasurements
    /\ \E k \in MeasurementKinds :
        measurements' = [measurements EXCEPT ![k] = @ + 1]
    /\ UNCHANGED <<unit, vars_backend, severity_calls, detected, vars_app, vars_proto,
                   vars_history, vars_data, vars_gen>>

\* a call of AlertService._detect_temperature_anomalies
DetectTemperature ==
    /\ unit = "AlertService"
    /\ detected = None
    /\ detected' = [detector |-> "temperature",
                    anomalies |-> detect_temperature_anomalies(
                                      RowsOf(measurements, MeasurementKinds))]
    /\ UNCHANGED <<unit, vars_backend, severity_calls, measurements, vars_app, vars_proto,
                   vars_history, vars_data, vars_gen>>

\* a call of AlertService._detect_salinity_anomalies
DetectSalinity ==
    /\ unit = "AlertService"
    /\ detected = None
    /\ detected' = [detector |-> "salinity",
                    anomalies |-> detect_salinity_anomalies(
                                      RowsOf(measurements, MeasurementKinds))]
    /\ UNCHANGED <<unit, vars_backend, severity_calls, measurements, vars_app, vars_proto,
                   vars_history, vars_data, vars_gen>>

\* a call of DataService.execute_query
ExecuteQuery ==
    /\ unit = "DataService"
    /\ query_result = None
    /\ \E sql_query \in DataQueries, fails_query \in BOOLEAN, fails_sample \in BOOLEAN :
        query_result' = [sql_query |-> sql_query,
                         fails_query |-> fails_query,
                         fails_sample |-> fails_sample,
                         result |-> data_execute_query(sql_query, table_rows,
                                                       fails_query, fails_sample)]
    /\ UNCHANGED <<unit, vars_backend, table_rows, vars_app, vars_proto, vars_history,
                   vars_alert, vars_gen>>

Generated(generator, n, records) ==
    [generator |-> generator, n |-> n, records |-> records]

GenerateArgoProfiles ==
    /\ unit = "generators"
    /\ generated = None
    /\ \E n \in 0..MaxRecords, seed \in Seeds :
        generated' = Generated("generate_argo_profiles", n, generate_argo_profiles(n, seed))
    /\ UNCHANGED <<unit, vars_backend, vars_app, vars_proto, vars_history, vars_alert, vars_data>>

GenerateSatelliteData ==
    /\ unit = "generators"
    /\ generated = None
    /\ \E n \in 0..MaxRecords, seed \in Seeds :
        generated' = Generated("generate_satellite_data", n, generate_satellite_data(n, seed))
    /\ UNCHANGED <<unit, vars_backend, vars_app, vars_proto, vars_history, vars_alert, vars_data>>

GenerateBuoyData ==
    /\ unit = "generators"
    /\ generated = None
    /\ \E n \in 0..MaxRecords, seed \in Seeds :
        generated' = Generated("generate_buoy_data", n, generate_buoy_data(n, seed))
    /\ UNCHANGED <<unit, vars_backend, vars_app, vars_proto, vars_history, vars_alert, vars_data>>

GenerateMeasurements ==
    /\ unit = "generators"
    /\ generated = None
    /\ \E seed \in Seeds :
        generated' = Generated("generate_measurements", Len(profile_depths),
                               generate_measurements(seed, 0))
    /\ UNCHANGED <<unit, vars_backend, vars_app, vars_proto, vars_history, vars_alert, vars_data>>

\* ARGODataManager.create_sample_data, for any stream of draws
CreateSampleData ==
    /\ unit = "generators"
    /\ generated = None
    /\ \E seed \in Seeds :
        generated' = Generated("create_sample_data", n_records, create_sample_data(seed))
    /\ UNCHANGED <<unit, vars_backend, vars_app, vars_proto, vars_history, vars_alert, vars_data>>

\* DataService._generate_sample_data, for any stream of draws
GenerateSampleData ==
    /\ unit = "generators"
    /\ generated = None
    /\ \E seed \in Seeds :
        generated' = Generated("_generate_sample_data", fallback_records,
                               generate_sample_data(seed))
    /\ UNCHANGED <<unit, vars_backend, vars_app, vars_proto, vars_history, vars_alert, vars_data>>

-----------------------------------------------------------------------------
(* The full backend's application, backend/app/main.py.                    *)

\* the names a module of the standard library defines
EmailMimeText == {"MIMEText", "MIMENonMultipart"}
EmailMimeMultipart == {"MIMEMultipart", "MIMEBase"}

\* `from email.mime.text import MimeText' and `from email.mime.multipart
\* import MimeMultipart' at the head of services/alert_service.py: a name
\* the module does not define raises ImportError
AlertServiceImports ==
    /\ "MimeText" \in EmailMimeText
    /\ "MimeMultipart" \in EmailMimeMultipart

\* the modules main.py imports inside its try block, in order
MainImports ==
    <<"core.config", "core.database", "api.auth", "services.data_service",
      "services.alert_service", "ai.langchain_service">>

\* module can be imported where its packages are those of installed
Loads(module, installed) ==
    /\ module \in installed
    /\ module = "services.alert_service" => AlertServiceImports

\* the index of the first import of main.py that raises ImportError, 0 if
\* none does
FirstFailure(installed) ==
    LET failing == {i \in 1..Len(MainImports) : ~Loads(MainImports[i], installed)}
    IN  IF failing = {} THEN 0
        ELSE CHOOSE i \in failing : \A j \in failing : i <= j

\* the bindings after the import block: the except branch binds the
\* fallbacks over whatever was imported, and engine is bound only when the
\* import of core.database was reached and succeeded
MainBindings(installed) ==
    LET failure == FirstFailure(installed)
        origin == IF failure = 0 THEN "imported" ELSE "fallback"
    IN  [ get_db |-> origin,
          get_current_user |-> origin,
          DataService |-> origin,
          AlertService |-> origin,
          nl_to_sql |-> origin,
          engine |-> (failure = 0 \/ failure > 2) ]

\* the methods of the class AlertService is bound to
Methods(class) ==
    IF class = "fallback" THEN {"get_anomalies"}
    ELSE {"get_anomalies", "run_anomaly_detection", "create_manual_alert",
          "get_user_alerts", "mark_alert_read"}

EmptyState == [data_service |-> None, alert_service |-> None]

\* startup_event: the services are set after the tables were created; any
\* exception (engine unbound, database unreachable) is printed
startup_event(names, database_up) ==
    IF names.engine /\ database_up
    THEN [data_service |-> [class |-> names.DataService],
          alert_service |-> [class |-> names.AlertService]]
    ELSE EmptyState

HTTPException(status_code, detail) ==
    [status_code |-> status_code, body |-> [detail |-> detail]]

\* get_current_user: the fallback returns the demo user, the imported one
\* raises 401 for a request without a valid token
Authenticated(names, valid_token) ==
    names.get_current_user = "fallback" \/ valid_token

\* get_db: the fallback yields None, the imported one a session
Session(names) ==
    IF names.get_db = "fallback" THEN None ELSE [kind |-> "AsyncSession"]

\* trigger_anomaly_detection: [response, tasks], the tasks being those of
\* background_tasks after the handler
trigger_anomaly_detection(state, names, valid_token) ==
    IF ~Authenticated(names, valid_token)
    THEN [response |-> HTTPException(401, "Could not validate credentials"),
          tasks |-> << >>]
    ELSE IF state.alert_service = None
    THEN [response |->
              HTTPException(500, "'State' object has no attribute 'alert_service'"),
          tasks |-> << >>]
    ELSE IF "run_anomaly_detection" \notin Methods(state.alert_service.class)
    THEN [response |->
              HTTPException(500,
                  "'AlertService' object has no attribute 'run_anomaly_detection'"),
          tasks |-> << >>]
    ELSE [response |->
              [status_code |-> 200,
               body |-> [message |-> "Anomaly detection started",
                         status |-> "processing"]],
          tasks |-> <<[func |-> "run_anomaly_detection", db |-> Session(names)]>>]

MaxRequests == 2
Packages == {MainImports[i] : i \in 1..Len(MainImports)}

\* main.py imported, before the startup event
InitMain ==
    /\ unit = "main"
    /\ \E installed \in SUBSET Packages : bound = MainBindings(installed)
    /\ app_state = None
    /\ http = << >>
    /\ background = << >>
    /\ clock = None
    /\ inflight = None
    /\ AppIdle /\ ProtoIdle /\ HistoryIdle /\ AlertIdle /\ DataIdle /\ GenIdle
    /\ AuthIdle /\ RunIdle

MainStartup ==
    /\ unit = "main"
    /\ app_state = None
    /\ \E database_up \in BOOLEAN : app_state' = startup_event(bound, database_up)
    /\ UNCHANGED <<unit, bound, http, clock, inflight, background, vars_auth, vars_run, vars_app, vars_proto,
                   vars_history, vars_alert, vars_data, vars_gen>>

\* POST /api/v1/anomalies/detect
TriggerDetection ==
    /\ unit = "main"
    /\ app_state # None
    /\ Len(http) < MaxRequests
    /\ \E valid_token \in BOOLEAN :
        LET out == trigger_anomaly_detection(app_state, bound, valid_token)
        IN  /\ http' = Append(http, out.response)
            /\ background' = background \o out.tasks
    /\ UNCHANGED <<unit, bound, app_state, clock, inflight, vars_auth, vars_run, vars_app, vars_proto,
                   vars_history, vars_alert, vars_data, vars_gen>>


\* ---- POST /api/v1/query

\* the bindings when every import of main.py resolves
ResolvedBindings ==
    [get_db |-> "imported", get_current_user |-> "imported", DataService |-> "imported",
     AlertService |-> "imported", nl_to_sql |-> "imported", engine |-> TRUE]

TicksPerSecond == 2

\* int(x) of a time given in ticks: the whole seconds
IntSeconds(ticks) == ticks \div TicksPerSecond

\* f"q_{int(time.time())}"
QueryId(now) == <<"q_", IntSeconds(now)>>

\* natural_language_query of main.py from its last await to its return: the
\* response.
\* The fallback nl_to_sql is a function, which has no generate_sql; an
\* exception of the translation or of the query is answered with 500
main_natural_language_query(state, names, valid_token, succeeds, start_time, now) ==
    IF ~Authenticated(names, valid_token)
    THEN HTTPException(401, "Could not validate credentials")
    ELSE IF names.nl_to_sql = "fallback"
    THEN HTTPException(500,
             "Query processing error: 'function' object has no attribute 'generate_sql'")
    ELSE IF state.data_service = None
    THEN HTTPException(500,
             "Query processing error: 'State' object has no attribute 'data_service'")
    ELSE IF ~succeeds
    THEN HTTPException(500, "Query processing error: {e}")
    ELSE [status_code |-> 200,
          body |-> [query_id |-> QueryId(now), execution_time |-> now - start_time]]

MaxClock == 3

\* the application started, with its names bound as main.py binds them or
\* with every import resolved
InitQueries ==
    /\ unit = "main.natural_language_query"
    /\ bound \in {MainBindings(Packages), ResolvedBindings}
    /\ app_state = startup_event(bound, TRUE)
    /\ http = << >>
    /\ background = << >>
    /\ clock = 0
    /\ inflight = << >>
    /\ AppIdle /\ ProtoIdle /\ HistoryIdle /\ AlertIdle /\ DataIdle /\ GenIdle
    /\ AuthIdle /\ RunIdle

UnchangedOutsideMain ==
    UNCHANGED <<unit, vars_auth, vars_run, vars_app, vars_proto, vars_history, vars_alert,
                vars_data, vars_gen>>

\* time passes
Tick ==
    /\ unit = "main.natural_language_query"
    /\ clock < MaxClock
    /\ clock' = clock + 1
    /\ UNCHANGED <<bound, app_state, http, inflight, background>>
    /\ UnchangedOutsideMain

\* a request arrives: start_time = time.time(), and the handler awaits
ReceiveQuery ==
    /\ unit = "main.natural_language_query"
    /\ Len(http) + Len(inflight) < MaxRequests
    /\ \E valid_token \in BOOLEAN :
        inflight' = Append(inflight, [start_time |-> clock, valid_token |-> valid_token])
    /\ UNCHANGED <<bound, app_state, http, clock, background>>
    /\ UnchangedOutsideMain

\* a request being handled, in any order, is answered
AnswerQuery ==
    /\ unit = "main.natural_language_query"
    /\ \E n \in 1..Len(inflight), succeeds \in BOOLEAN :
        LET request == inflight[n]
            answer == main_natural_language_query(app_state, bound, request.valid_token,
                                                  succeeds, request.start_time, clock)
        IN  /\ http' = Append(http, answer)
            /\ inflight' = [m \in 1..(Len(inflight) - 1) |->
                               IF m < n THEN inflight[m] ELSE inflight[m + 1]]
            /\ background' = IF answer.status_code = 200
                             THEN Append(background, [func |-> "log_user_query"])
                             ELSE background
    /\ UNCHANGED <<bound, app_state, clock>>
    /\ UnchangedOutsideMain

-----------------------------------------------------------------------------
(* Login, backend/app/api/auth.py.                                         *)

\* text.split("<<")","[","0","]",":"," ","t","h","e"," ","t","e","x","t"," ","b","e","f","o","r","e"," ","t","h","e"," ","f","i","r","s","t"," ">>", all of it without one
BeforeAt(text) ==
    LET ats == {i \in 1..Len(text) : text[i] = "@"}
    IN  IF ats = {} THEN text
        ELSE SubSeq(text, 1, (CHOOSE i \in ats : \A j \in ats : i <= j) - 1)

\* the user_info login builds from the request; it has no firebase_uid
LoginUserInfo(email) ==
    [email |-> email,
     name |-> BeforeAt(email),
     role |-> IF Contains(email, <<"s","c","i","e","n","t","i","s","t">>) THEN "scientist" ELSE "student",
     firebase_uid |-> None]

\* select(User).where((User.email == email) | (User.firebase_uid == uid)):
\* a uid of None makes the second comparison `firebase_uid IS NULL'
MatchingUsers(table, user_info) ==
    {i \in 1..Len(table) :
        \/ table[i].email = user_info.email
        \/ table[i].firebase_uid = user_info.firebase_uid}

AuthenticationError == [raised |-> "AuthenticationError"]

\* get_or_create_user: [users, result], result the user or the exception;
\* commit_ok says whether the database accepts the commit
get_or_create_user(table, user_info, commit_ok) ==
    LET found == MatchingUsers(table, user_info)
    IN  IF Cardinality(found) > 1
        THEN \* scalar_one_or_none raises MultipleResultsFound
             [users |-> table, result |-> AuthenticationError]
        ELSE IF found = {}
        THEN LET user == [email |-> user_info.email,
                          firebase_uid |-> user_info.firebase_uid,
                          full_name |-> user_info.name,
                          role |-> user_info.role,
                          is_active |-> TRUE]
             IN  IF commit_ok
                 THEN [users |-> Append(table, user), result |-> user]
                 ELSE [users |-> table, result |-> AuthenticationError]
        ELSE LET i == CHOOSE i \in found : TRUE
                 renamed == [table[i] EXCEPT !.full_name = user_info.name]
             IN  IF user_info.name # << >> /\ table[i].full_name # user_info.name
                 THEN IF commit_ok
                      THEN [users |-> [table EXCEPT ![i] = renamed],
                            result |-> renamed]
                      ELSE [users |-> table, result |-> AuthenticationError]
                 ELSE [users |-> table, result |-> table[i]]

\* login: [users, response]
login(table, email, commit_ok) ==
    LET out == get_or_create_user(table, LoginUserInfo(email), commit_ok)
    IN  IF out.result = AuthenticationError
        THEN [users |-> out.users,
              response |-> [status_code |-> 401, user_info |-> None]]
        ELSE [users |-> out.users,
              response |-> [status_code |-> 200,
                            user_info |-> [email |-> out.result.email,
                                           full_name |-> out.result.full_name,
                                           role |-> out.result.role]]]

MaxUsers == 3

\* the accounts the login page advertises, and one more
LoginEmails ==
    { <<"s","c","i","e","n","t","i","s","t","@","a","r","g","o",".","c","o","m">>, <<"p","o","l","i","c","y","@","a","r","g","o",".","c","o","m">>, <<"s","t","u","d","e","n","t","@","a","r","g","o",".","c","o","m">>,
      <<"c","h","i","e","f",".","s","c","i","e","n","t","i","s","t","@","s","e","a",".","o","r","g">> }

\* a user who signed in through Firebase before
FirebaseUser ==
    [email |-> <<"a","d","m","i","n","@","a","r","g","o",".","c","o","m">>, firebase_uid |-> [kind |-> "str", value |-> "uid-1"],
     full_name |-> <<"a","d","m","i","n">>, role |-> "admin", is_active |-> TRUE]

\* login on its own, on a users table that is empty or holds a Firebase user
InitLogin ==
    /\ unit = "auth.login"
    /\ users \in {<< >>, <<FirebaseUser>>}
    /\ login_result = None
    /\ logins = None
    /\ AppIdle /\ ProtoIdle /\ HistoryIdle /\ AlertIdle /\ DataIdle /\ GenIdle
    /\ MainIdle /\ RunIdle

\* POST /api/v1/auth/login
Login ==
    /\ unit = "auth.login"
    /\ Len(users) < MaxUsers
    /\ \E email \in LoginEmails, commit_ok \in BOOLEAN :
        LET out == login(users, email, commit_ok)
        IN  /\ users' = out.users
            /\ login_result' =
                   [email |-> email,
                    existed |-> \E i \in 1..Len(users) : users[i].email = email,
                    response |-> out.response]
    /\ UNCHANGED <<unit, logins, vars_main, vars_run, vars_app, vars_proto, vars_history,
                   vars_alert, vars_data, vars_gen>>

\* ---- concurrent calls of get_or_create_user, each on a session of its
\* own; the database runs each statement and each commit on its own

MaxLogins == 2

Callers == 1..MaxLogins

\* a user an earlier login with e-mail and password created
PasswordUser == get_or_create_user(<< >>, LoginUserInfo(<<"s","t","u","d","e","n","t","@","a","r","g","o",".","c","o","m">>), TRUE).result

\* users.email is declared unique=True; firebase_uid is unique as well,
\* where NULLs do not collide
UniqueViolation(table, user) ==
    \E i \in 1..Len(table) :
        \/ table[i].email = user.email
        \/ (user.firebase_uid # None /\ table[i].firebase_uid = user.firebase_uid)

\* the calls all come with one e-mail address
InitConcurrentLogins ==
    /\ unit = "AuthService.get_or_create_user"
    /\ users \in {<< >>, <<FirebaseUser>>, <<PasswordUser>>}
    /\ login_result = None
    /\ \E email \in LoginEmails :
        logins = [email |-> email, before |-> users,
                  calls |-> [p \in Callers |->
                                [pc |-> "query", found |-> 0, result |-> None]]]
    /\ AppIdle /\ ProtoIdle /\ HistoryIdle /\ AlertIdle /\ DataIdle /\ GenIdle
    /\ MainIdle /\ RunIdle

UnchangedOutsideLogins ==
    UNCHANGED <<unit, login_result, vars_main, vars_run, vars_app, vars_proto, vars_history,
                vars_alert, vars_data, vars_gen>>

\* await db.execute(query) and scalar_one_or_none, up to the next await of
\* the call: the commit of the new user, the commit of the new name, or
\* the return; an error is rolled back and raised as AuthenticationError
SelectUser(p) ==
    /\ unit = "AuthService.get_or_create_user"
    /\ logins.calls[p].pc = "query"
    /\ \E query_ok \in BOOLEAN :
        LET user_info == LoginUserInfo(logins.email)
            found == MatchingUsers(users, user_info)
            i == CHOOSE i \in found : TRUE
            next ==
                IF ~query_ok \/ Cardinality(found) > 1
                THEN [pc |-> "raised", found |-> 0, result |-> AuthenticationError]
                ELSE IF found = {}
                THEN [pc |-> "create", found |-> 0, result |-> None]
                ELSE IF user_info.name # << >> /\ users[i].full_name # user_info.name
                THEN [pc |-> "update", found |-> i, result |-> None]
                ELSE [pc |-> "returned", found |-> i, result |-> users[i]]
        IN  logins' = [logins EXCEPT !.calls[p] = next]
    /\ UNCHANGED users
    /\ UnchangedOutsideLogins

\* db.add(user), await db.commit(), await db.refresh(user)
CommitNewUser(p) ==
    /\ unit = "AuthService.get_or_create_user"
    /\ logins.calls[p].pc = "create"
    /\ \E commit_ok \in BOOLEAN :
        LET user_info == LoginUserInfo(logins.email)
            user == [email |-> user_info.email,
                     firebase_uid |-> user_info.firebase_uid,
                     full_name |-> user_info.name,
                     role |-> user_info.role,
                     is_active |-> TRUE]
        IN  IF commit_ok /\ ~UniqueViolation(users, user)
            THEN /\ users' = Append(users, user)
                 /\ logins' = [logins EXCEPT !.calls[p] =
                        [pc |-> "returned", found |-> Len(users) + 1, result |-> user]]
            ELSE /\ users' = users
                 /\ logins' = [logins EXCEPT !.calls[p] =
                        [pc |-> "raised", found |-> 0, result |-> AuthenticationError]]
    /\ UnchangedOutsideLogins

\* user.full_name = user_info["name"] and await db.commit(): the UPDATE of
\* the row that was read
CommitNewName(p) ==
    /\ unit = "AuthService.get_or_create_user"
    /\ logins.calls[p].pc = "update"
    /\ \E commit_ok \in BOOLEAN :
        LET i == logins.calls[p].found
            renamed == [users[i] EXCEPT !.full_name = LoginUserInfo(logins.email).name]
        IN  IF commit_ok
            THEN /\ users' = [users EXCEPT ![i] = renamed]
                 /\ logins' = [logins EXCEPT !.calls[p] =
                        [pc |-> "returned", found |-> i, result |-> renamed]]
            ELSE /\ users' = users
                 /\ logins' = [logins EXCEPT !.calls[p] =
                        [pc |-> "raised", found |-> 0, result |-> AuthenticationError]]
    /\ UnchangedOutsideLogins

ConcurrentLogin == \E p \in Callers : SelectUser(p) \/ CommitNewUser(p) \/ CommitNewName(p)

-----------------------------------------------------------------------------
(* A detection run, services/alert_service.py: run_anomaly_detection and   *)
(* _send_anomaly_alerts on an AsyncSession.                                *)

\* the columns declared nullable=False that the constructors of the run
\* may leave unset (models/models.py)
NotNullColumns(table) ==
    CASE table = "ocean_anomalies" ->
             {"anomaly_type", "start_date", "latitude", "longitude", "location"}
      [] table = "user_alerts" -> {"alert_type"}
      [] table = "argo_floats" -> {"float_id"}
      [] table = "argo_profiles" -> {"profile_date", "latitude", "longitude", "location"}
      [] table = "argo_measurements" -> {}

\* OceanAnomaly(**anomaly_data): the columns the dictionary does not name
\* stay None (unset)
OceanAnomaly(anomaly_data) ==
    [table |-> "ocean_anomalies",
     anomaly_type |-> anomaly_data.anomaly_type,
     severity |-> anomaly_data.severity,
     start_date |-> anomaly_data.start_date,
     end_date |-> anomaly_data.end_date,
     latitude |-> anomaly_data.latitude,
     longitude |-> anomaly_data.longitude,
     data_source |-> anomaly_data.data_source,
     unset |-> {"location", "area_affected"}]

\* UserAlert(user_id, alert_type, message, is_read=False); the message is
\* the description and the cell with one decimal (latitude and longitude
\* of an anomaly are whole degrees, so the decimal is 0)
UserAlert(user, anomaly) ==
    [table |-> "user_alerts",
     user_id |-> user.id,
     alert_type |-> <<"anomaly_", anomaly.anomaly_type>>,
     message |-> [latitude_tenths |-> 10 * anomaly.latitude,
                  longitude_tenths |-> 10 * anomaly.longitude],
     is_read |-> FALSE,
     unset |-> {"anomaly_id"}]

\* the flush of a commit: INSERT of every pending object; a None in a
\* NOT NULL column raises IntegrityError
Flushes(pending) ==
    \A i \in 1..Len(pending) :
        NotNullColumns(pending[i].table) \cap pending[i].unset = {}

\* the rows of pending that go to table
RowsFor(pending, table) ==
    LET at == {i \in 1..Len(pending) : pending[i].table = table}
        F[n \in 0..Len(pending)] ==
            IF n = 0 THEN << >>
            ELSE IF n \in at THEN Append(F[n - 1], pending[n]) ELSE F[n - 1]
    IN  F[Len(pending)]

\* await db.commit(): [ok, store, error], the pending objects inserted when
\* the database is reachable and accepts them
Commit(stored, pending, database_up) ==
    IF ~database_up
    THEN [ok |-> FALSE, store |-> stored, error |-> "OperationalError"]
    ELSE IF ~Flushes(pending)
    THEN [ok |-> FALSE, store |-> stored, error |-> "IntegrityError"]
    ELSE [ok |-> TRUE,
          store |-> [stored EXCEPT
                       !.ocean_anomalies = @ \o RowsFor(pending, "ocean_anomalies"),
                       !.user_alerts = @ \o RowsFor(pending, "user_alerts")],
          error |-> "none"]

\* the users _send_anomaly_alerts asks for, with a role other than those
\* of the query
EligibleUsersOfAnyRole(table) ==
    LET F[n \in 0..Len(table)] ==
            IF n = 0 THEN << >>
            ELSE IF table[n].is_active THEN Append(F[n - 1], table[n]) ELSE F[n - 1]
    IN  F[Len(table)]

\* select(User).where(is_active == True, role scientist, policymaker or
\* admin), in table order
EligibleUsers(table) ==
    LET F[n \in 0..Len(table)] ==
            IF n = 0 THEN << >>
            ELSE IF /\ table[n].is_active
                    /\ table[n].role \in {"scientist", "policymaker", "admin"}
                 THEN Append(F[n - 1], table[n])
                 ELSE F[n - 1]
    IN  F[Len(table)]

\* _send_email_alert: nothing is sent without settings.email_username; an
\* SMTP error is printed by _send_smtp_email; no exception leaves it
send_email_alert(sent, configured, smtp_ok, user, anomaly) ==
    IF configured /\ smtp_ok
    THEN Append(sent, [to |-> user.email, anomaly_type |-> anomaly.anomaly_type])
    ELSE sent

\* ---- the runs of the model

\* measurement tables: ten equal surface rows in one cell (calm); the same
\* with one row of another cell that is warmer and saltier (warm); three
\* rows (sparse)
SurfaceRow(latitude, date) ==
    CHOOSE k \in MeasurementKinds : k.latitude = latitude /\ k.profile_date = date

TableOf(calm_rows, warm_rows) ==
    [k \in MeasurementKinds |->
        IF k = SurfaceRow(102, -5) THEN calm_rows
        ELSE IF k = SurfaceRow(114, -2) THEN warm_rows
        ELSE 0]

RunTables == {TableOf(10, 0), TableOf(10, 1), TableOf(3, 0)}

\* what the two detectors find in a table, temperature first
Detections(table, temperature_ok, salinity_ok) ==
    (IF temperature_ok
     THEN detect_temperature_anomalies(RowsOf(table, MeasurementKinds))
     ELSE << >>)
    \o
    (IF salinity_ok
     THEN detect_salinity_anomalies(RowsOf(table, MeasurementKinds))
     ELSE << >>)

\* the lists _send_anomaly_alerts is called with
AnomalyLists ==
    {Detections(TableOf(10, 1), TRUE, TRUE), Detections(TableOf(10, 1), TRUE, FALSE), << >>}

UserRow(id, role, is_active) ==
    [id |-> id, email |-> <<role, id>>, role |-> role, is_active |-> is_active]

UserTables ==
    { <<UserRow(1, "scientist", TRUE), UserRow(2, "student", TRUE),
        UserRow(3, "policymaker", FALSE), UserRow(4, "admin", TRUE)>>,
      <<UserRow(1, "student", TRUE), UserRow(2, "policymaker", TRUE)>>,
      << >> }

\* a database with no anomaly and no alert yet, and a session with nothing
\* pending
InitRunState(pc, table, anomalies) ==
    /\ \E rows \in UserTables :
        store = [ocean_anomalies |-> << >>, user_alerts |-> << >>, users |-> rows]
    /\ session = << >>
    /\ \E configured \in BOOLEAN :
        run = [pc |-> pc, table |-> table, all_anomalies |-> anomalies,
               users |-> << >>, i |-> 1, j |-> 1, log |-> << >>,
               error |-> "none", unsent |-> << >>, configured |-> configured]
    /\ emails = << >>
    /\ AppIdle /\ ProtoIdle /\ HistoryIdle /\ AlertIdle /\ DataIdle /\ GenIdle
    /\ MainIdle /\ AuthIdle

\* a call of run_anomaly_detection
InitRun ==
    /\ unit = "AlertService.run_anomaly_detection"
    /\ \E table \in RunTables : InitRunState("start", table, << >>)

\* a call of _send_anomaly_alerts
InitSendAlerts ==
    /\ unit = "AlertService._send_anomaly_alerts"
    /\ \E anomalies \in AnomalyLists : InitRunState("alerts", None, anomalies)

RunUnits == {"AlertService.run_anomaly_detection", "AlertService._send_anomaly_alerts"}

UnchangedOutsideRun ==
    UNCHANGED <<unit, vars_main, vars_auth, vars_app, vars_proto, vars_history,
                vars_alert, vars_data, vars_gen>>

\* run_anomaly_detection up to its commit: the two detectors (each returns
\* [] when its query fails) and db.add of an OceanAnomaly for each anomaly
RunDetection ==
    /\ unit \in RunUnits
    /\ run.pc = "start"
    /\ \E temperature_ok, salinity_ok \in BOOLEAN :
        LET all_anomalies == Detections(run.table, temperature_ok, salinity_ok)
        IN  /\ run' = [run EXCEPT !.pc = "commit", !.all_anomalies = all_anomalies]
            /\ session' = session \o
                   [n \in 1..Len(all_anomalies) |-> OceanAnomaly(all_anomalies[n])]
    /\ UNCHANGED <<store, emails>>
    /\ UnchangedOutsideRun

\* await db.commit() of run_anomaly_detection, and the except branch:
\* rollback and print
CommitAnomalies ==
    /\ unit \in RunUnits
    /\ run.pc = "commit"
    /\ \E database_up \in BOOLEAN :
        LET done == Commit(store, session, database_up)
        IN  IF done.ok
            THEN /\ store' = done.store
                 /\ session' = << >>
                 /\ run' = IF run.all_anomalies # << >>
                           THEN [run EXCEPT !.pc = "alerts"]
                           ELSE [run EXCEPT !.pc = "done",
                                            !.log = Append(@, "Anomaly detection completed")]
            ELSE /\ store' = store
                 /\ session' = << >>
                 /\ run' = [run EXCEPT !.pc = "failed", !.error = done.error,
                                       !.log = Append(@, "Error in anomaly detection")]
    /\ UNCHANGED emails
    /\ UnchangedOutsideRun

\* what follows _send_anomaly_alerts: run_anomaly_detection prints that it
\* completed
AfterAlerts(r) ==
    IF unit = "AlertService.run_anomaly_detection"
    THEN [r EXCEPT !.pc = "done", !.log = Append(@, "Anomaly detection completed")]
    ELSE [r EXCEPT !.pc = "done"]

\* _send_anomaly_alerts, the query for the users; an error of the query is
\* printed by the except branch and the function returns
QueryAlertUsers ==
    /\ unit \in RunUnits
    /\ run.pc = "alerts"
    /\ \E database_up \in BOOLEAN :
        IF database_up
        THEN LET found == EligibleUsers(store.users)
             IN  run' = [run EXCEPT
                     !.users = found, !.i = 1, !.j = 1,
                     !.pc = IF found = << >> \/ run.all_anomalies = << >>
                            THEN "alerts_commit" ELSE "loop"]
        ELSE run' = AfterAlerts([run EXCEPT !.error = "OperationalError",
                                            !.log = Append(@, "Error sending alerts")])
    /\ UNCHANGED <<store, session, emails>>
    /\ UnchangedOutsideRun

\* one turn of the loops over users and anomalies: db.add of the alert,
\* then the e-mail
AddAlert ==
    /\ unit \in RunUnits
    /\ run.pc = "loop"
    /\ LET user == run.users[run.i]
           anomaly == run.all_anomalies[run.j]
           last_anomaly == run.j = Len(run.all_anomalies)
           last_user == run.i = Len(run.users)
       IN  /\ session' = Append(session, UserAlert(user, anomaly))
           /\ \E smtp_ok \in BOOLEAN :
               /\ emails' = send_email_alert(emails, run.configured, smtp_ok, user, anomaly)
               /\ run' = [run EXCEPT
                      !.j = IF last_anomaly THEN 1 ELSE @ + 1,
                      !.i = IF last_anomaly THEN @ + 1 ELSE @,
                      !.unsent = IF run.configured /\ ~smtp_ok
                                 THEN Append(@, <<user.id, run.j>>) ELSE @,
                      !.pc = IF last_anomaly /\ last_user THEN "alerts_commit" ELSE @]
    /\ UNCHANGED store
    /\ UnchangedOutsideRun

\* await db.commit() of _send_anomaly_alerts; its except branch prints and
\* does not roll back
CommitAlerts ==
    /\ unit \in RunUnits
    /\ run.pc = "alerts_commit"
    /\ \E database_up \in BOOLEAN :
        LET done == Commit(store, session, database_up)
        IN  IF done.ok
            THEN /\ store' = done.store
                 /\ session' = << >>
                 /\ run' = AfterAlerts(run)
            ELSE /\ store' = store
                 /\ session' = session
                 /\ run' = AfterAlerts([run EXCEPT !.error = done.error,
                                                   !.log = Append(@, "Error sending alerts")])
    /\ UNCHANGED emails
    /\ UnchangedOutsideRun

\* ---- AlertService.mark_alert_read

\* the same with no condition on the user
MarkAlertReadOfAnyUser(table, alert_id, user_id, query_ok, commit_ok) ==
    LET found == {n \in 1..Len(table) : table[n].id = alert_id}
    IN  IF ~query_ok \/ found = {}
        THEN [result |-> FALSE, table |-> table, dirty |-> {}]
        ELSE IF commit_ok
        THEN [result |-> TRUE,
              table |-> [n \in 1..Len(table) |->
                            IF n \in found THEN [table[n] EXCEPT !.is_read = TRUE]
                            ELSE table[n]],
              dirty |-> {}]
        ELSE [result |-> FALSE, table |-> table, dirty |-> found]

\* mark_alert_read: [result, table, dirty]. The query is by primary key and
\* user; the alert found is set read in the session and committed; an
\* error of the query or of the commit is printed and answered with False,
\* the changed object staying in the session (dirty), the row as it was
mark_alert_read(table, alert_id, user_id, query_ok, commit_ok) ==
    LET found == {n \in 1..Len(table) :
                     table[n].id = alert_id /\ table[n].user_id = user_id}
    IN  IF ~query_ok \/ found = {}
        THEN [result |-> FALSE, table |-> table, dirty |-> {}]
        ELSE IF commit_ok
        THEN [result |-> TRUE,
              table |-> [n \in 1..Len(table) |->
                            IF n \in found THEN [table[n] EXCEPT !.is_read = TRUE]
                            ELSE table[n]],
              dirty |-> {}]
        ELSE [result |-> FALSE, table |-> table, dirty |-> found]

MaxMarks == 2

AlertRow(id, user_id, is_read) == [id |-> id, user_id |-> user_id, is_read |-> is_read]

AlertTables ==
    { <<AlertRow(1, 1, FALSE), AlertRow(2, 2, FALSE), AlertRow(3, 1, TRUE), AlertRow(4, 1, FALSE)>>,
      <<AlertRow(2, 2, TRUE)>>,
      << >> }

AlertIds == 1..5

AlertUserIds == 1..3

\* calls of mark_alert_read, each on a session of its own
InitMark ==
    /\ unit = "AlertService.mark_alert_read"
    /\ \E rows \in AlertTables : store = [user_alerts |-> rows]
    /\ session = {}
    /\ run = [calls |-> 0, alert_id |-> 0, user_id |-> 0, result |-> FALSE,
              before |-> << >>]
    /\ emails = None
    /\ AppIdle /\ ProtoIdle /\ HistoryIdle /\ AlertIdle /\ DataIdle /\ GenIdle
    /\ MainIdle /\ AuthIdle

MarkAlertRead ==
    /\ unit = "AlertService.mark_alert_read"
    /\ run.calls < MaxMarks
    /\ \E alert_id \in AlertIds, user_id \in AlertUserIds, query_ok, commit_ok \in BOOLEAN :
        LET done == mark_alert_read(store.user_alerts, alert_id, user_id, query_ok, commit_ok)
        IN  /\ store' = [store EXCEPT !.user_alerts = done.table]
            /\ session' = done.dirty
            /\ run' = [calls |-> run.calls + 1, alert_id |-> alert_id, user_id |-> user_id,
                       result |-> done.result, before |-> store.user_alerts]
    /\ UNCHANGED emails
    /\ UnchangedOutsideRun

\* ---- DataService.ingest_argo_data, services/data_service.py

\* the records of a batch: the float, the keys the dictionary lacks, and
\* the number of its measurements
ArgoRecord(float_id, missing, count) ==
    [float_id |-> float_id, missing |-> missing, measurements |-> count]

\* ArgoFloat(float_id=..., ...): location is not set
ArgoFloat(record) ==
    [table |-> "argo_floats", float_id |-> record.float_id, status |-> "active",
     unset |-> {"location", "pi_name", "data_center"}]

\* ArgoProfile(float_id=..., profile_date=..., latitude=..., longitude=...,
\* ...): location is not set
ArgoProfile(record) ==
    [table |-> "argo_profiles", float_id |-> record.float_id, cycle_number |-> 1,
     unset |-> {"location"}]

\* ArgoMeasurement(profile_id=..., ...) for each measurement of the record
ArgoMeasurements(record) ==
    [n \in 1..record.measurements |->
        [table |-> "argo_measurements", float_id |-> record.float_id, n |-> n, unset |-> {}]]

\* _get_or_create_float: [ok, flushed, error]; the float is looked up among
\* the rows the transaction sees, and a new one is added and flushed
get_or_create_float(stored, flushed, record, database_up) ==
    IF "float_id" \in record.missing
    THEN [ok |-> FALSE, flushed |-> flushed, error |-> "KeyError"]
    ELSE IF ~database_up
    THEN [ok |-> FALSE, flushed |-> flushed, error |-> "OperationalError"]
    ELSE IF \E i \in 1..Len(stored.argo_floats) :
                stored.argo_floats[i].float_id = record.float_id
    THEN [ok |-> TRUE, flushed |-> flushed, error |-> "none"]
    ELSE IF \E i \in 1..Len(flushed) :
                flushed[i].table = "argo_floats" /\ flushed[i].float_id = record.float_id
    THEN [ok |-> TRUE, flushed |-> flushed, error |-> "none"]
    ELSE IF Flushes(<<ArgoFloat(record)>>)
    THEN [ok |-> TRUE, flushed |-> Append(flushed, ArgoFloat(record)), error |-> "none"]
    ELSE [ok |-> FALSE, flushed |-> flushed, error |-> "IntegrityError"]

\* _create_profile: [ok, flushed, error]; the profile is added and flushed
create_profile(flushed, record, database_up) ==
    IF record.missing \cap {"profile_date", "latitude", "longitude"} # {}
    THEN [ok |-> FALSE, flushed |-> flushed, error |-> "KeyError"]
    ELSE IF ~database_up
    THEN [ok |-> FALSE, flushed |-> flushed, error |-> "OperationalError"]
    ELSE IF Flushes(<<ArgoProfile(record)>>)
    THEN [ok |-> TRUE, flushed |-> Append(flushed, ArgoProfile(record)), error |-> "none"]
    ELSE [ok |-> FALSE, flushed |-> flushed, error |-> "IntegrityError"]

\* the body of the loop for one record: [ok, flushed, error]
IngestOne(stored, flushed, record, database_up) ==
    LET float == get_or_create_float(stored, flushed, record, database_up)
        profile == create_profile(float.flushed, record, database_up)
    IN  IF ~float.ok THEN float
        ELSE IF ~profile.ok THEN [profile EXCEPT !.flushed = float.flushed]
        ELSE IF "measurements" \in record.missing THEN profile
        ELSE [profile EXCEPT !.flushed = @ \o ArgoMeasurements(record)]

MaxBatch == 2

IngestRecords ==
    { ArgoRecord("F1", {}, 2), ArgoRecord("F2", {"measurements"}, 0),
      ArgoRecord("F1", {"profile_date"}, 1) }

RECURSIVE Batches(_)
Batches(n) ==
    IF n = 0 THEN {<< >>}
    ELSE Batches(n - 1) \cup
         {Append(b, r) : b \in {c \in Batches(n - 1) : Len(c) = n - 1}, r \in IngestRecords}

\* a call of ingest_argo_data on a database that is empty or knows float F1
InitIngest ==
    /\ unit = "DataService.ingest_argo_data"
    /\ \E known \in {<< >>, <<ArgoFloat(ArgoRecord("F1", {}, 0))>>} :
        store = [argo_floats |-> known, argo_profiles |-> << >>, argo_measurements |-> << >>]
    /\ session = << >>
    /\ \E data \in Batches(MaxBatch) :
        run = [pc |-> "loop", data |-> data, k |-> 1, error |-> "none", log |-> << >>,
               before |-> store]
    /\ emails = None
    /\ AppIdle /\ ProtoIdle /\ HistoryIdle /\ AlertIdle /\ DataIdle /\ GenIdle
    /\ MainIdle /\ AuthIdle

\* one turn of the loop over the records; an exception goes to the except
\* branch: rollback and print
IngestRecord ==
    /\ unit = "DataService.ingest_argo_data"
    /\ run.pc = "loop"
    /\ run.k <= Len(run.data)
    /\ \E database_up \in BOOLEAN :
        LET done == IngestOne(store, session, run.data[run.k], database_up)
        IN  IF done.ok
            THEN /\ session' = done.flushed
                 /\ run' = [run EXCEPT !.k = @ + 1]
            ELSE /\ session' = << >>
                 /\ run' = [run EXCEPT !.pc = "failed", !.error = done.error,
                                       !.log = Append(@, "Error ingesting ARGO data")]
    /\ UNCHANGED <<store, emails>>
    /\ UnchangedOutsideRun

\* await db.commit() after the loop, and the except branch
CommitBatch ==
    /\ unit = "DataService.ingest_argo_data"
    /\ run.pc = "loop"
    /\ run.k > Len(run.data)
    /\ \E database_up \in BOOLEAN :
        IF database_up
        THEN /\ store' = [argo_floats |-> store.argo_floats \o RowsFor(session, "argo_floats"),
                          argo_profiles |-> store.argo_profiles \o RowsFor(session, "argo_profiles"),
                          argo_measurements |->
                              store.argo_measurements \o RowsFor(session, "argo_measurements")]
             /\ session' = << >>
             /\ run' = [run EXCEPT !.pc = "done",
                                   !.log = Append(@, "Successfully ingested")]
        ELSE /\ store' = store
             /\ session' = << >>
             /\ run' = [run EXCEPT !.pc = "failed", !.error = "OperationalError",
                                   !.log = Append(@, "Error ingesting ARGO data")]
    /\ UNCHANGED emails
    /\ UnchangedOutsideRun
-----------------------------------------------------------------------------
(* The specification.                                                      *)

Init ==
    \/ InitChat \/ InitParser \/ InitSummary \/ InitProto \/ InitProcess
    \/ InitSeverity \/ InitDetect \/ InitData \/ InitGen
    \/ InitMain \/ InitLogin \/ InitRun \/ InitSendAlerts
    \/ InitMark \/ InitConcurrentLogins \/ InitIngest \/ InitQueries

Next ==
    \/ Prompt \/ Parse \/ Summarize
    \/ Startup \/ Query \/ Dashboard \/ Process
    \/ CalculateSeverity \/ InsertMeasurement \/ DetectTemperature \/ DetectSalinity
    \/ ExecuteQuery
    \/ GenerateArgoProfiles \/ GenerateSatelliteData \/ GenerateBuoyData
    \/ GenerateMeasurements \/ CreateSampleData \/ GenerateSampleData
    \/ MainStartup \/ TriggerDetection \/ Login
    \/ RunDetection \/ CommitAnomalies \/ QueryAlertUsers \/ AddAlert \/ CommitAlerts
    \/ MarkAlertRead
    \/ ConcurrentLogin
    \/ IngestRecord \/ CommitBatch
    \/ Tick \/ ReceiveQuery \/ AnswerQuery

Spec == Init /\ [][Next]_vars

-----------------------------------------------------------------------------
(* Properties.                                                             *)

\* the patterns of the chat demo by name, in the order of declaration
DeclarationOrder ==
    <<"salinity_near_equator", "temperature_by_depth", "all_march_data",
      "surface_data", "deep_water", "float_specific", "all_data">>

\* the pattern named name has a keyword that is a substring of text
PatternHit(name, text) ==
    \E k \in 1..Len(InitialPatterns) :
        /\ InitialPatterns[k].name = name
        /\ \E n \in 1..Len(InitialPatterns[k].keywords) :
               Contains(text, InitialPatterns[k].keywords[n])

TemplateOf(name) ==
    InitialPatterns[CHOOSE k \in 1..Len(InitialPatterns) :
                        InitialPatterns[k].name = name].sql_template

\* the call of parse_query last made is one whose query has no `float',
\* whitespace, digits in it (the test is made on the lower-cased query)
ParsedWithoutFloatId ==
    /\ unit = "NaturalLanguageParser"
    /\ parsed # None
    /\ ~FloatMatch(Lower(parsed.query)).matched

\* C1: for a query without `float', whitespace and digits, parse_query
\* returns the template of the first pattern in declaration order that has a
\* keyword occurring in the lower-cased query, and
\* 'SELECT * FROM argo_data LIMIT 10' when no pattern has one.
C1_FirstPatternWins ==
    ParsedWithoutFloatId =>
        LET text == Lower(parsed.query)
            hits == {k \in 1..Len(DeclarationOrder) : PatternHit(DeclarationOrder[k], text)}
        IN  IF hits = {}
            THEN parsed.sql = <<"S","E","L","E","C","T"," ","*"," ","F","R","O","M"," ","a","r","g","o","_","d","a","t","a"," ","L","I","M","I","T"," ","1","0">>
            ELSE \E k \in hits :
                    /\ \A j \in hits : k <= j
                    /\ parsed.sql = TemplateOf(DeclarationOrder[k])

\* a query in which two patterns have a keyword got the template of the one
\* declared first, although its keyword comes later in the query
C1_Witness ==
    /\ ParsedWithoutFloatId
    /\ parsed.query = <<"T","e","m","p","e","r","a","t","u","r","e"," ","s","a","l","i","n","i","t","y">>
    /\ PatternHit("salinity_near_equator", Lower(parsed.query))
    /\ PatternHit("temperature_by_depth", Lower(parsed.query))
    /\ parsed.sql = TemplateOf("salinity_near_equator")

Categories ==
    <<[name |-> "temperature", words |-> TemperatureWords,
       sqls |-> {SqlTempHigh, SqlTempLow, SqlTempRecent}],
      [name |-> "salinity", words |-> SalinityWords,
       sqls |-> {SqlSalHigh, SqlSalLow, SqlSalRecent}],
      [name |-> "pressure/depth", words |-> PressureWords,
       sqls |-> {SqlPressureDeep, SqlPressure}],
      [name |-> "location", words |-> LocationWords, sqls |-> {SqlLocation}],
      [name |-> "anomaly", words |-> AnomalyWords,
       sqls |-> {SqlAnomalyTemp, SqlAnomalySal, SqlAnomaly}],
      [name |-> "float", words |-> FloatWords,
       sqls |-> {SqlFloatActive, SqlFloatProject, SqlFloat}],
      [name |-> "data overview", words |-> DataWords,
       sqls |-> {SqlDataRecent, SqlDataSummary}],
      [name |-> "scientist", words |-> ScientistWords, sqls |-> {SqlScientist}],
      [name |-> "time", words |-> TimeWords, sqls |-> {SqlTime}]>>

\* the categories that have a trigger word in the lower-cased query
CategoriesHit(query) ==
    {k \in 1..Len(Categories) :
        \E n \in 1..Len(Categories[k].words) :
            Contains(Lower(query), Categories[k].words[n])}

\* sql is what the precedence of the categories asks for query
ByPrecedence(query, sql) ==
    LET hits == CategoriesHit(query)
    IN  IF hits = {}
        THEN sql = <<"S","E","L","E","C","T"," ","*"," ","F","R","O","M"," ","a","r","g","o","_","f","l","o","a","t","s"," ","L","I","M","I","T"," ","8">>
        ELSE \E k \in hits :
                /\ \A j \in hits : k <= j
                /\ sql \in Categories[k].sqls
                /\ \A j \in 1..Len(Categories) : j # k => sql \notin Categories[j].sqls

\* C3: process_natural_language_query answers with the SQL of the first
\* category, in the order temperature, salinity, pressure/depth, location,
\* anomaly, float, data overview, scientist, time, that has a trigger word in
\* the lower-cased query, never with the SQL of a later one, and with
\* 'SELECT * FROM argo_floats LIMIT 8' when no category has one.
C3_CategoryPrecedence ==
    /\ (unit = "process_natural_language_query" /\ parsed # None)
           => ByPrecedence(parsed.query, parsed.sql)
    /\ (unit = "simple_main" /\ response # None)
           => ByPrecedence(response.request, response.sql_query)

\* a query with a salinity word first and a temperature word after it was
\* answered with the SQL of the temperature category
C3_Witness ==
    /\ unit = "process_natural_language_query"
    /\ parsed # None
    /\ parsed.query = <<"s","a","l","t"," ","t","e","m","p","e","r","a","t","u","r","e">>
    /\ CategoriesHit(parsed.query) = {1, 2}
    /\ parsed.sql = SqlTempRecent

\* the order of the severity tiers
TierRank(severity) ==
    CASE severity = "low" -> 0
      [] severity = "medium" -> 1
      [] severity = "high" -> 2
      [] severity = "extreme" -> 3

\* the tier the thresholds give the whole numbers d and s
TierOf(d, s) ==
    IF d > 3 * s THEN "extreme"
    ELSE IF 2 * s < d /\ d <= 3 * s THEN "high"
    ELSE IF 3 * s < 2 * d /\ d <= 2 * s THEN "medium"
    ELSE "low"

\* C4: _calculate_severity is monotonic in the deviation: for one standard
\* deviation s and deviations d1 <= d2 the tier of d2 is not lower than the
\* tier of d1 in the order low < medium < high < extreme, the tier being
\* extreme iff d > 3s, high iff 2s < d <= 3s, medium iff 1.5s < d <= 2s and
\* low otherwise.
C4_SeverityMonotonic ==
    unit = "AlertService._calculate_severity" =>
        /\ \A i \in 1..Len(severity_calls) :
               severity_calls[i].severity =
                   TierOf(severity_calls[i].deviation, severity_calls[i].std_dev)
        /\ \A i, j \in 1..Len(severity_calls) :
               (/\ severity_calls[i].std_dev = severity_calls[j].std_dev
                /\ severity_calls[i].deviation <= severity_calls[j].deviation)
                   => TierRank(severity_calls[i].severity)
                          <= TierRank(severity_calls[j].severity)

\* two calls with one standard deviation, the first with the larger
\* deviation: it got a tier two steps higher than the second
C4_Witness ==
    /\ unit = "AlertService._calculate_severity"
    /\ Len(severity_calls) = 2
    /\ severity_calls[1].std_dev = severity_calls[2].std_dev
    /\ severity_calls[1].std_dev > 0
    /\ severity_calls[2].deviation < severity_calls[1].deviation
    /\ severity_calls[2].severity = "medium"
    /\ severity_calls[1].severity = "extreme"

\* the sum over the rows of kinds, each as often as the table holds it, of
\* the power-th power of the column field
RECURSIVE PowerSum(_, _, _, _)
PowerSum(bag, kinds, field, power) ==
    IF kinds = {} THEN 0
    ELSE LET k == CHOOSE x \in kinds : TRUE
             v == CASE power = 0 -> 1
                    [] power = 1 -> k[field]
                    [] power = 2 -> k[field] * k[field]
         IN  bag[k] * v + PowerSum(bag, kinds \ {k}, field, power)

\* what is required of the anomalies found in the column field, flagged
\* beyond p/q standard deviations: with n qualifying rows of sum S and sum of
\* squares Q, a cell of m rows of sum T differs from the global mean by
\* (nT - mS) / mn, and the standard deviation is sqrt(nQ - S^2) / n
OnePerDeviatingCell(anomalies, field, p, q, high, low) ==
    LET K == {k \in MeasurementKinds : measurements[k] > 0 /\ Qualifies(k, field)}
        n == PowerSum(measurements, K, field, 0)
        S == PowerSum(measurements, K, field, 1)
        Q == PowerSum(measurements, K, field, 2)
        cells == {CellOf(k) : k \in K}
        At(c) == {i \in 1..Len(anomalies) :
                     anomalies[i].latitude = c[1] /\ anomalies[i].longitude = c[2]}
    IN  n >= 10 =>
            /\ \A i \in 1..Len(anomalies) :
                   <<anomalies[i].latitude, anomalies[i].longitude>> \in cells
            /\ \A c \in cells :
                   LET G == {k \in K : CellOf(k) = c}
                       m == PowerSum(measurements, G, field, 0)
                       T == PowerSum(measurements, G, field, 1)
                       d == n * T - m * S
                   IN  IF q * q * d * d > p * p * (n * Q - S * S) * m * m
                       THEN /\ Cardinality(At(c)) = 1
                            /\ \A i \in At(c) :
                                   anomalies[i].anomaly_type = IF d > 0 THEN high ELSE low
                       ELSE At(c) = {}

\* C5: given at least 10 qualifying surface measurements, a detector emits
\* exactly one anomaly for every one-degree cell whose mean differs from the
\* global mean by strictly more than 2 (temperature) or 1.5 (salinity) global
\* standard deviations, and none for any other cell; the type is heatwave or
\* high_salinity for a positive deviation, cold_spell or low_salinity for a
\* negative one.
C5_OneAnomalyPerDeviatingCell ==
    (unit = "AlertService" /\ detected # None) =>
        IF detected.detector = "temperature"
        THEN OnePerDeviatingCell(detected.anomalies, "temperature", 2, 1,
                                 "heatwave", "cold_spell")
        ELSE OnePerDeviatingCell(detected.anomalies, "salinity", 3, 2,
                                 "high_salinity", "low_salinity")

\* eight salinities of 0 in one cell and two of 1 in another: the second
\* cell is two standard deviations from the mean, and the salinity detector
\* reported it, and only it
C5_Witness ==
    /\ unit = "AlertService"
    /\ detected # None
    /\ detected.detector = "salinity"
    /\ LET K == {k \in MeasurementKinds : measurements[k] > 0 /\ Qualifies(k, "salinity")}
       IN  /\ PowerSum(measurements, K, "salinity", 0) = 10
           /\ PowerSum(measurements, K, "salinity", 1) = 2
           /\ Cardinality({CellOf(k) : k \in K}) = 2
           /\ \A k \in K : k.salinity = 1 <=> CellOf(k) = <<11, 120>>
    /\ Len(detected.anomalies) = 1
    /\ detected.anomalies[1].anomaly_type = "high_salinity"
    /\ detected.anomalies[1].latitude = 11
    /\ detected.anomalies[1].longitude = 120

\* the k-th prompt of the chat session gave an empty result and no error
EmptyResultAt(k) ==
    LET res == execute_query(parse_query(patterns, messages[2 * k - 1].content), argo_data)
    IN  res.error = None /\ (res.df.kind = "None" \/ IsEmptyFrame(res.df))

\* the chat demo answers an empty result with the no-data message, which
\* has no 'data' entry; generate_ai_summary answers None and an empty frame
\* with its no-data text
NoDataAnswers ==
    /\ unit = "app.main" =>
           \A k \in 1..(Len(messages) \div 2) :
               EmptyResultAt(k) =>
                   /\ messages[2 * k].role = "assistant"
                   /\ messages[2 * k].content =
                          Text("No data found matching your criteria.", << >>)
                   /\ "data" \notin DOMAIN messages[2 * k]
    /\ (unit = "generate_ai_summary" /\ summary # None) =>
           ((summary.df.kind = "None" \/ IsEmptyFrame(summary.df))
                => summary.result = Text("No data found for your query.", << >>))

\* a request to /api/query whose SQL gives no rows is answered with a
\* successful response whose results are the empty list
NoDataResponse ==
    (unit = "simple_main" /\ response' # response) =>
        LET res == RunProtoSql(response'.sql_query, db)
        IN  (res.ok /\ res.rows = << >>)
                => (response'.status = 200 /\ response'.results = << >>)

\* C6: an empty result set yields a normal no-data response, never an
\* exception or an error response: the chat demo appends the assistant
\* message 'No data found matching your criteria.' without a 'data' entry,
\* generate_ai_summary returns 'No data found for your query.' for None and
\* for an empty frame, and /api/query returns a successful response with
\* results = [].
C6_EmptyResultIsNoData == []NoDataAnswers /\ [][NoDataResponse]_vars

\* the prompt 'float 7' selected no row (no float has the id 7) and got the
\* no-data message
C6_Witness ==
    /\ unit = "app.main"
    /\ Len(messages) >= 2
    /\ messages[1].content = <<"f","l","o","a","t"," ","7">>
    /\ EmptyResultAt(1)
    /\ messages[2] = [role |-> "assistant",
                      content |-> Text("No data found matching your criteria.", << >>)]

HasFields(record, fields) == fields \subseteq DOMAIN record

\* C7: generate_argo_profiles(n), generate_satellite_data(n) and
\* generate_buoy_data(n) return exactly n records, for every n >= 0; every
\* profile has 'float_id' and a non-empty list 'measurements' whose entries
\* have 'depth', 'temperature' and 'salinity'; every satellite record has
\* 'satellite_name', 'latitude', 'longitude' and 'value'; every buoy record
\* has 'buoy_id', 'sea_surface_temperature' and 'wind_speed'.
C7_GeneratedRecords ==
    (unit = "generators" /\ generated # None) =>
        LET records == generated.records
        IN  /\ generated.generator = "generate_argo_profiles" =>
                /\ Len(records) = generated.n
                /\ \A i \in 1..Len(records) :
                    /\ HasFields(records[i], {"float_id", "measurements"})
                    /\ Len(records[i].measurements) > 0
                    /\ \A j \in 1..Len(records[i].measurements) :
                           HasFields(records[i].measurements[j],
                                     {"depth", "temperature", "salinity"})
            /\ generated.generator = "generate_satellite_data" =>
                /\ Len(records) = generated.n
                /\ \A i \in 1..Len(records) :
                       HasFields(records[i],
                                 {"satellite_name", "latitude", "longitude", "value"})
            /\ generated.generator = "generate_buoy_data" =>
                /\ Len(records) = generated.n
                /\ \A i \in 1..Len(records) :
                       HasFields(records[i],
                                 {"buoy_id", "sea_surface_temperature", "wind_speed"})

\* generate_buoy_data was asked for the largest number of records and
\* returned that many
C7_Witness ==
    /\ unit = "generators"
    /\ generated # None
    /\ generated.generator = "generate_buoy_data"
    /\ generated.n = MaxRecords
    /\ Len(generated.records) = MaxRecords
    /\ HasFields(generated.records[MaxRecords], {"buoy_id", "wind_speed"})

\* the bounds of the temperature, in degrees, for a depth: bands is a list
\* of <<deepest depth of the band, lowest, highest>>, the last band having no
\* deepest depth
RECURSIVE BandOf(_, _)
BandOf(depth, bands) ==
    IF Len(bands) = 1 \/ depth <= bands[1][1] THEN bands[1]
    ELSE BandOf(depth, Tail(bands))

\* temperature, in hundredths of a degree, is within the band of depth
InBand(depth, temperature, bands) ==
    LET band == BandOf(depth, bands)
    IN  band[2] * 100 <= temperature /\ temperature <= band[3] * 100

MeasurementBands == <<<<50, 20, 30>>, <<200, 10, 20>>, <<1000, 4, 12>>, <<1000, 1, 5>>>>
ChatBands == <<<<50, 25, 30>>, <<200, 20, 25>>, <<200, 2, 8>>>>
FallbackBands == <<<<50, 15, 30>>, <<200, 8, 20>>, <<200, 2, 8>>>>

AllInBand(records, bands) ==
    \A i \in 1..Len(records) : InBand(records[i].depth, records[i].temperature, bands)

\* C8: in every generator the temperature of a record is within the bounds
\* of the band of the record's depth: generate_measurements [20,30] for
\* depth <= 50, [10,20] for depth <= 200, [4,12] for depth <= 1000, [1,5]
\* below; create_sample_data [25,30], [20,25] for the first two bands and
\* [2,8] below; _generate_sample_data [15,30], [8,20] and [2,8].
C8_TemperatureInBand ==
    (unit = "generators" /\ generated # None) =>
        /\ generated.generator = "generate_measurements"
               => AllInBand(generated.records, MeasurementBands)
        /\ generated.generator = "generate_argo_profiles"
               => \A i \in 1..Len(generated.records) :
                      AllInBand(generated.records[i].measurements, MeasurementBands)
        /\ generated.generator = "create_sample_data"
               => AllInBand(generated.records, ChatBands)
        /\ generated.generator = "_generate_sample_data"
               => AllInBand(generated.records, FallbackBands)

\* generate_measurements drew the highest temperature of the first band at
\* its deepest depth, 50, and a temperature of the second band at 75
C8_Witness ==
    /\ unit = "generators"
    /\ generated # None
    /\ generated.generator = "generate_measurements"
    /\ \E i \in 1..Len(generated.records) :
           /\ generated.records[i].depth = 50
           /\ generated.records[i].temperature = 3000
    /\ \E i \in 1..Len(generated.records) :
           /\ generated.records[i].depth = 75
           /\ generated.records[i].temperature < 2000

\* executing the statement of the last call failed
ExecutionFailed ==
    \/ query_result.fails_query
    \/ DbExecute(WithLimit(query_result.sql_query), table_rows, FALSE).raised

\* C9: DataService.execute_query propagates no error: when executing the SQL
\* fails it returns what get_sample_data returns, and when that query fails
\* too the 50 records of _generate_sample_data; the caller receives a list of
\* records for every SQL text and every failure of the database.
C9_NoErrorPropagates ==
    (unit = "DataService" /\ query_result # None) =>
        /\ ~query_result.result.raised
        /\ query_result.result.source \in {"query", "sample", "generated"}
        /\ ExecutionFailed =>
               IF query_result.fails_sample
               THEN /\ query_result.result.source = "generated"
                    /\ query_result.result.count = 50
                    /\ Len(query_result.result.rows) = 50
               ELSE /\ query_result.result.source = "sample"
                    /\ query_result.result.count <= 100
                    /\ query_result.result.count <= table_rows

\* the statement was no SQL and the database failed the sample query too:
\* the caller got the 50 synthetic records
C9_Witness ==
    /\ unit = "DataService"
    /\ query_result # None
    /\ ~query_result.fails_query
    /\ ExecutionFailed
    /\ query_result.fails_sample
    /\ ~query_result.result.raised
    /\ query_result.result.source = "generated"
    /\ Len(query_result.result.rows) = 50

\* C10: DataService.execute_query returns at most max_query_results (10000)
\* rows, for any SQL text.  The code adds its LIMIT only to a text that does
\* not hold the word: a statement with a larger LIMIT of its own, or with
\* the letters `limit' anywhere in it, is executed as it is.
C10_AtMostMaxQueryResults ==
    (unit = "DataService" /\ query_result # None) =>
        query_result.result.count <= max_query_results

\* the answer of trigger_anomaly_detection that says the run was started
DetectionStarted ==
    [status_code |-> 200,
     body |-> [message |-> "Anomaly detection started", status |-> "processing"]]

\* C11: a request to POST /api/v1/anomalies/detect that passes
\* authentication is answered {'message': 'Anomaly detection started',
\* 'status': 'processing'}, the detection run being left to a background
\* task.  services/alert_service.py cannot be imported (email.mime.text
\* defines MIMEText, not MimeText), so main.py runs with its fallback
\* AlertService, which has no run_anomaly_detection: the handler answers
\* 500 and no run is started.
C11_TriggerAnswersProcessing ==
    unit = "main" =>
        \A i \in 1..Len(http) :
            http[i].status_code # 401 => http[i] = DetectionStarted

\* the counts init_database gives a database that held no profile and no
\* anomaly: 3 floats, 3 profiles, 2 anomalies
SampleCounts(floats, profiles, anomalies) ==
    /\ floats = Len(sample_floats)
    /\ profiles = Len(sample_profiles)
    /\ anomalies = Len(sample_anomalies)

\* C12: however many times the prototype was started on the same database
\* file, the tables hold the rows of the first init_database (3 floats,
\* 3 profiles, 2 anomalies) and /api/dashboard reports those counts.  Only
\* argo_floats has a UNIQUE column for INSERT OR IGNORE to act on: the
\* second startup inserts the profiles and the anomalies again.
C12_SampleDataGeneratedOnce ==
    (unit = "simple_main" /\ started) =>
        /\ SampleCounts(Len(db.argo_floats), Len(db.argo_profiles),
                        Len(db.ocean_anomalies))
        /\ dashboard # None =>
               SampleCounts(dashboard.total_floats, dashboard.total_profiles,
                            dashboard.recent_anomalies)

\* the role the login page advertises for a demo account
AdvertisedRole(email) ==
    CASE email = <<"s","c","i","e","n","t","i","s","t","@","a","r","g","o",".","c","o","m">> -> "scientist"
      [] email = <<"p","o","l","i","c","y","@","a","r","g","o",".","c","o","m">> -> "policymaker"
      [] email = <<"s","t","u","d","e","n","t","@","a","r","g","o",".","c","o","m">> -> "student"
      [] OTHER -> "none"

\* C13: a successful login with a demo account whose email was in no row of
\* users leaves a user with that email and the advertised role (scientist,
\* policymaker, student).  login gives `scientist' to an email that holds
\* the word and `student' to every other one, so policy@argo.com becomes a
\* student.
C13_DemoAccountGetsAdvertisedRole ==
    ( /\ unit = "auth.login"
      /\ login_result # None
      /\ AdvertisedRole(login_result.email) # "none"
      /\ ~login_result.existed
      /\ login_result.response.status_code = 200 )
    => \E i \in 1..Len(users) :
          /\ users[i].email = login_result.email
          /\ users[i].role = AdvertisedRole(login_result.email)

\* the places where text has `float', one or more whitespace characters and
\* a number: [at, number], number being all the digits that follow
NumberedFloats(text) ==
    {[at |-> i, number |-> SubSeq(text, j, k)] :
        <<i, j, k>> \in
            {t \in (1..Len(text)) \X (1..Len(text)) \X (1..Len(text)) :
                /\ t[1] + 4 <= Len(text)
                /\ SubSeq(text, t[1], t[1] + 4) = <<"f","l","o","a","t">>
                /\ t[2] > t[1] + 5
                /\ \A m \in (t[1] + 5)..(t[2] - 1) : text[m] \in Whitespace
                /\ t[3] >= t[2]
                /\ \A m \in t[2]..t[3] : text[m] \in {"0", "1", "2", "3", "4", "5", "6", "7", "8", "9"}
                /\ (t[3] = Len(text) \/ text[t[3] + 1] \notin {"0", "1", "2", "3", "4", "5", "6", "7", "8", "9"})}}

\* C14: when the lower-cased query has `float', whitespace and a number N
\* in it, parse_query returns 'SELECT * FROM argo_data WHERE float_id = N'
\* (N of the first such place), whatever keywords the query has besides.
C14_FloatNumberFirst ==
    (unit = "NaturalLanguageParser" /\ parsed # None) =>
        LET found == NumberedFloats(Lower(parsed.query))
        IN  found # {} =>
                \E f \in found :
                    /\ \A g \in found : f.at <= g.at
                    /\ parsed.sql = <<"S","E","L","E","C","T"," ","*"," ","F","R","O","M"," ","a","r","g","o","_","d","a","t","a"," ","W","H","E","R","E"," ","f","l","o","a","t","_","i","d"," ","="," ">> \o f.number

\* a query with a keyword of the first pattern before the float number
C14_Witness ==
    /\ unit = "NaturalLanguageParser"
    /\ parsed # None
    /\ parsed.query = <<"s","a","l","i","n","i","t","y"," ","f","l","o","a","t"," ","7">>
    /\ PatternHit("salinity_near_equator", Lower(parsed.query))
    /\ parsed.sql = <<"S","E","L","E","C","T"," ","*"," ","F","R","O","M"," ","a","r","g","o","_","d","a","t","a"," ","W","H","E","R","E"," ","f","l","o","a","t","_","i","d"," ","="," ","7">>

\* C15: no SQL returned by parse_query holds the placeholder '{float_id}'.
\* A query with the word `float' and no number after it (and no keyword of
\* an earlier pattern) gets the template of float_specific as it is
\* written, placeholder included.
C15_NoPlaceholderReturned ==
    (unit = "NaturalLanguageParser" /\ parsed # None) =>
        ~Contains(parsed.sql, <<"{","f","l","o","a","t","_","i","d","}">>)

\* the query has one of the words that announce a question about anomalies
AsksForAnomalies(text) ==
    \E word \in { <<"a","n","o","m","a","l">>, <<"u","n","u","s","u","a","l">>, <<"s","t","r","a","n","g","e">>, <<"a","l","e","r","t">>, <<"p","r","o","b","l","e","m">>, <<"i","s","s","u","e">> } :
        Contains(text, word)

\* C16: a query with an anomaly word and the word `temperature' is answered
\* with the ocean_anomalies query for temperature anomalies and its
\* explanation, and one with `salinity' with the one for salinity
\* anomalies.  Both words also open the temperature and salinity branches,
\* which the chain tries before the anomaly branch, so such a query is
\* answered from argo_profiles.
C16_AnomaliesOfVariable ==
    (unit = "simple_main" /\ response # None /\ AsksForAnomalies(Lower(response.request))) =>
        /\ Contains(Lower(response.request), <<"t","e","m","p","e","r","a","t","u","r","e">>) =>
            /\ response.sql_query = <<"S","E","L","E","C","T"," ","*"," ","F","R","O","M"," ","o","c","e","a","n","_","a","n","o","m","a","l","i","e","s"," ","W","H","E","R","E"," ","a","n","o","m","a","l","y","_","t","y","p","e"," ","L","I","K","E"," ","'","%","t","e","m","p","e","r","a","t","u","r","e","%","'"," ","O","R","D","E","R"," ","B","Y"," ","d","e","t","e","c","t","e","d","_","a","t"," ","D","E","S","C"," ","L","I","M","I","T"," ","1","0">>
            /\ response.explanation =
                   Text("Retrieving temperature-related anomalies detected by the system", << >>)
        /\ Contains(Lower(response.request), <<"s","a","l","i","n","i","t","y">>) =>
            /\ response.sql_query = <<"S","E","L","E","C","T"," ","*"," ","F","R","O","M"," ","o","c","e","a","n","_","a","n","o","m","a","l","i","e","s"," ","W","H","E","R","E"," ","a","n","o","m","a","l","y","_","t","y","p","e"," ","L","I","K","E"," ","'","%","s","a","l","i","n","i","t","y","%","'"," ","O","R","D","E","R"," ","B","Y"," ","d","e","t","e","c","t","e","d","_","a","t"," ","D","E","S","C"," ","L","I","M","I","T"," ","1","0">>
            /\ response.explanation =
                   Text("Retrieving salinity-related anomalies detected by the system", << >>)

\* the measurements of the table a detector of the column field works on:
\* dated within the last 7 days, not null, at a depth of 10 m or less
SurfaceKinds(field) ==
    {k \in MeasurementKinds :
        /\ measurements[k] > 0
        /\ k.profile_date >= -7
        /\ k[field] # NULL
        /\ k.depth <= 10}

\* C17: with fewer than 10 non-null surface measurements (depth <= 10)
\* within the look-back window for its variable, a detector returns no
\* anomaly, whatever the measured values are.
C17_TooFewMeasurementsNoAnomaly ==
    (unit = "AlertService" /\ detected # None) =>
        (PowerSum(measurements, SurfaceKinds(detected.detector), detected.detector, 0) < 10
            => detected.anomalies = << >>)

\* a table of 11 rows, 9 of them qualifying for temperature: eight of 0 in
\* one cell and one of 1 in another, which lies far more than 2 standard
\* deviations from the mean; the temperature detector returned nothing
C17_Witness ==
    /\ unit = "AlertService"
    /\ detected # None
    /\ detected.detector = "temperature"
    /\ BagTotal(measurements, MeasurementKinds) = 11
    /\ LET K == SurfaceKinds("temperature")
       IN  /\ PowerSum(measurements, K, "temperature", 0) = 9
           /\ PowerSum(measurements, K, "temperature", 1) = 1
           /\ \A k \in K : k.temperature = 1 <=> CellOf(k) = <<11, 120>>
    /\ detected.anomalies = << >>

\* C18: every anomaly of the temperature detector has severity high or
\* extreme, every anomaly of the salinity detector medium, high or extreme;
\* no detected anomaly has severity low.
C18_SeverityAboveThreshold ==
    (unit = "AlertService" /\ detected # None) =>
        \A i \in 1..Len(detected.anomalies) :
            detected.anomalies[i].severity \in
                (IF detected.detector = "temperature"
                 THEN {"high", "extreme"}
                 ELSE {"medium", "high", "extreme"})

\* the temperature detector found an anomaly that is beyond 2 standard
\* deviations and not beyond 3
C18_Witness ==
    /\ unit = "AlertService"
    /\ detected # None
    /\ detected.detector = "temperature"
    /\ PowerSum(measurements, SurfaceKinds("temperature"), "temperature", 0) >= 10
    /\ \E i \in 1..Len(detected.anomalies) : detected.anomalies[i].severity = "high"

\* the alert objects of the session and the alerts of the database
PendingAlerts == RowsFor(session, "user_alerts")

AlertsCreated == PendingAlerts # << >> \/ store.user_alerts # << >> \/ emails # << >>

\* alerts exist only once every anomaly of the run is committed, and only
\* when there is one
AlertsAfterCommittedAnomalies ==
    (unit = "AlertService.run_anomaly_detection" /\ AlertsCreated) =>
        /\ run.all_anomalies # << >>
        /\ Len(store.ocean_anomalies) = Len(run.all_anomalies)

\* a failed commit of the anomalies: rolled back, nothing stored, no alert
FailedRunLeavesNothing ==
    (unit = "AlertService.run_anomaly_detection" /\ run.pc = "failed") =>
        /\ session = << >>
        /\ store.ocean_anomalies = << >>
        /\ ~AlertsCreated

\* an error while alerts are sent leaves the committed anomalies
AlertFailureKeepsAnomalies ==
    (/\ unit = "AlertService.run_anomaly_detection"
     /\ run.pc = "done"
     /\ \E n \in 1..Len(run.log) : run.log[n] = "Error sending alerts") =>
        Len(store.ocean_anomalies) = Len(run.all_anomalies)

\* the anomalies a run found are committed whenever the database can be
\* reached
FoundAnomaliesCommitted ==
    (/\ unit = "AlertService.run_anomaly_detection"
     /\ run.pc = "failed"
     /\ run.all_anomalies # << >>) =>
        run.error = "OperationalError"

Eligible ==
    {n \in 1..Len(store.users) :
        /\ store.users[n].is_active
        /\ store.users[n].role \in {"scientist", "policymaker", "admin"}}

\* the stored alerts of user n for anomaly j
AlertsOfPair(n, j) ==
    {a \in 1..Len(store.user_alerts) :
        store.user_alerts[a] = UserAlert(store.users[n], run.all_anomalies[j])}

\* exactly one unread alert for every pair of an eligible user and an
\* anomaly, none for anyone else, also where the e-mail of the pair failed
OneAlertPerEligiblePair ==
    /\ \A n \in Eligible : \A j \in 1..Len(run.all_anomalies) :
           Cardinality(AlertsOfPair(n, j)) = 1
    /\ Len(store.user_alerts) = Cardinality(Eligible) * Len(run.all_anomalies)
    /\ \A a \in 1..Len(store.user_alerts) :
           /\ ~store.user_alerts[a].is_read
           /\ \E n \in Eligible : store.users[n].id = store.user_alerts[a].user_id
    /\ \A m \in 1..Len(run.unsent) :
           \E n \in Eligible :
               /\ store.users[n].id = run.unsent[m][1]
               /\ AlertsOfPair(n, run.unsent[m][2]) # {}

Addressed ==
    {n \in 1..Len(run.before) :
        run.before[n].id = run.alert_id /\ run.before[n].user_id = run.user_id}

\* C21: mark_alert_read answers True, and sets is_read, only when an alert
\* with the id exists and belongs to the user; when there is none it answers
\* False and every read flag is as before; in both cases every alert other
\* than the addressed one is as before.
C21_OnlyAddressedAlertMarked ==
    (unit = "AlertService.mark_alert_read" /\ run.calls > 0) =>
        /\ run.result =>
               /\ Addressed # {}
               /\ \A n \in Addressed : store.user_alerts[n].is_read
        /\ Addressed = {} =>
               /\ ~run.result
               /\ store.user_alerts = run.before
        /\ Len(store.user_alerts) = Len(run.before)
        /\ \A n \in 1..Len(run.before) :
               n \notin Addressed => store.user_alerts[n] = run.before[n]
        /\ \A n \in Addressed :
               store.user_alerts[n] = [run.before[n] EXCEPT !.is_read = @ \/ run.result]

\* an unread alert of the user was marked read, next to another unread
\* alert of the same user and an unread alert of another user, and a call
\* for an alert of another user was refused before
C21_Witness ==
    /\ unit = "AlertService.mark_alert_read"
    /\ run.calls = 2
    /\ run.result
    /\ \E n \in Addressed : ~run.before[n].is_read
    /\ \E n \in 1..Len(run.before) :
           /\ n \notin Addressed
           /\ run.before[n].user_id = run.user_id
           /\ ~store.user_alerts[n].is_read
    /\ \E n \in 1..Len(run.before) :
           /\ run.before[n].user_id # run.user_id
           /\ ~store.user_alerts[n].is_read

\* the rows of the users table with the e-mail address of the calls
RowsOfEmail == {i \in 1..Len(users) : users[i].email = logins.email}

\* at most one row is ever committed for the e-mail address of the calls
AtMostOneRowOfEmail ==
    unit = "AuthService.get_or_create_user" => Cardinality(RowsOfEmail) <= 1

\* no call changes the role of a user who existed before
RoleOfExistingUserKept ==
    unit = "AuthService.get_or_create_user" =>
        \A i \in 1..Len(logins.before) : users[i].role = logins.before[i].role

\* a call that returned, returned the user with the e-mail address
ReturnsUserOfEmail ==
    unit = "AuthService.get_or_create_user" =>
        \A p \in Callers :
            logins.calls[p].pc = "returned" =>
                /\ logins.calls[p].found \in RowsOfEmail
                /\ logins.calls[p].result.email = logins.email

\* C22: however concurrent calls of get_or_create_user with one e-mail
\* address interleave, at most one User row with that address is committed,
\* every call returns that user or raises AuthenticationError after its
\* rollback, and the role of a user who existed is never changed.
C22_OneUserPerEmail ==
    /\ AtMostOneRowOfEmail
    /\ ReturnsUserOfEmail
    /\ RoleOfExistingUserKept

\* a batch that failed was rolled back: the tables are as before it and
\* nothing is left in the transaction
FailedBatchLeavesNothing ==
    (unit = "DataService.ingest_argo_data" /\ run.pc = "failed") =>
        store = run.before /\ session = << >>

\* before the commit at the end nothing of the batch is in the tables
NothingStoredBeforeCommit ==
    (unit = "DataService.ingest_argo_data" /\ run.pc = "loop") => store = run.before

\* no float is in the table, or in the table and the transaction, twice
FloatInsertedOnce ==
    unit = "DataService.ingest_argo_data" =>
        LET floats == store.argo_floats \o RowsFor(session, "argo_floats")
        IN  \A i, j \in 1..Len(floats) : floats[i].float_id = floats[j].float_id => i = j

\* a batch whose records all have their keys is committed whenever the
\* database can be reached
WellFormedBatchCommitted ==
    (/\ unit = "DataService.ingest_argo_data"
     /\ run.pc = "failed"
     /\ \A k \in 1..Len(run.data) :
            run.data[k].missing \cap {"float_id", "profile_date", "latitude", "longitude"} = {})
        => run.error = "OperationalError"

QueryResponses == {n \in 1..Len(http) : http[n].status_code = 200}

=============================================================================
